---- MODULE Spec2Model ----
(***************************************************************************)
(* A model of dio's hand-written 2D physics engine (src/physics): Vec2,    *)
(* the Rect shape, Body and Space, and the collision resolution functions. *)
(*                                                                         *)
(* f64 values are modelled as extended rationals <<n, d>> in lowest terms: *)
(*   d > 0        the rational n/d                                         *)
(*   <<0, 0>>     NaN                                                      *)
(*   <<1, 0>>     +infinity          <<-1, 0>>   -infinity                 *)
(* Arithmetic is exact (no rounding) except sqrt of a non-square, which is *)
(* rounded down to a multiple of 1/SqrtDen.  The sign of zero is not kept: *)
(* the code only ever feeds a zero into a division whose result is then    *)
(* NaN or an infinity of either sign, and both are treated alike by the    *)
(* comparisons that follow (see lines_intersect and align_quadrant).       *)
(***************************************************************************)
EXTENDS Integers, Sequences, FiniteSets, TLC

----------------------------------------------------------------------------
(* f64 arithmetic                                                          *)

IAbs(i) == IF i < 0 THEN -i ELSE i

ISgn(i) == IF i < 0 THEN -1 ELSE IF i > 0 THEN 1 ELSE 0

RECURSIVE Gcd(_, _)
Gcd(a, b) == IF b = 0 THEN a ELSE Gcd(b, a % b)

\* canonical form of the fraction n/d
Canon(n, d) ==
    IF d = 0 THEN <<ISgn(n), 0>>
    ELSE LET g == Gcd(IAbs(n), IAbs(d))
             s == IF d < 0 THEN -1 ELSE 1
         IN  <<(s * n) \div g, (s * d) \div g>>

F(n, d) == Canon(n, d)

NaN == <<0, 0>>
PInf == <<1, 0>>
NInf == <<-1, 0>>
Zero == <<0, 1>>
One == <<1, 1>>

IsNaN(a) == a = NaN
IsInf(a) == a[2] = 0 /\ a[1] # 0
IsFinite(a) == a[2] > 0

Lcm(a, b) == (a \div Gcd(a, b)) * b

\* a + b over the least common denominator
FAdd(a, b) ==
    IF IsInf(a) /\ IsInf(b) THEN (IF a = b THEN a ELSE NaN)
    ELSE IF a[2] = 0 \/ b[2] = 0 THEN Canon(a[1] * b[2] + b[1] * a[2], 0)
    ELSE LET l == Lcm(a[2], b[2])
         IN  Canon(a[1] * (l \div a[2]) + b[1] * (l \div b[2]), l)

FNeg(a) == <<-a[1], a[2]>>

FSub(a, b) == FAdd(a, FNeg(b))

\* a * b, cancelling across before multiplying
FMul(a, b) ==
    IF a[2] = 0 \/ b[2] = 0 THEN Canon(ISgn(a[1]) * ISgn(b[1]), 0)
    ELSE LET g1 == Gcd(IAbs(a[1]), b[2])
             g2 == Gcd(IAbs(b[1]), a[2])
         IN  Canon((a[1] \div g1) * (b[1] \div g2), (a[2] \div g2) * (b[2] \div g1))

FDiv(a, b) ==
    IF b[1] < 0 THEN Canon(-(a[1] * b[2]), -(a[2] * b[1]))
    ELSE Canon(a[1] * b[2], a[2] * b[1])

FAbs(a) == <<IAbs(a[1]), a[2]>>

\* a < b; false when either is NaN
FLt(a, b) ==
    /\ ~IsNaN(a)
    /\ ~IsNaN(b)
    /\ IF IsInf(a) /\ IsInf(b) THEN a[1] < b[1]
       ELSE IF IsInf(a) THEN a[1] < 0
       ELSE IF IsInf(b) THEN b[1] > 0
       ELSE LET l == Lcm(a[2], b[2])
            IN  a[1] * (l \div a[2]) < b[1] * (l \div b[2])

FGt(a, b) == FLt(b, a)

\* a == b; false when either is NaN
FEq(a, b) == ~IsNaN(a) /\ ~IsNaN(b) /\ a = b

FLe(a, b) == FLt(a, b) \/ FEq(a, b)

FGe(a, b) == FLe(b, a)

\* f64::min and f64::max: a NaN operand is ignored
FMin(a, b) ==
    IF IsNaN(a) THEN b
    ELSE IF IsNaN(b) THEN a
    ELSE IF FLt(b, a) THEN b ELSE a

FMax(a, b) ==
    IF IsNaN(a) THEN b
    ELSE IF IsNaN(b) THEN a
    ELSE IF FLt(a, b) THEN b ELSE a

\* floor of the square root of a natural number (Newton iteration)
RECURSIVE ISqrtIter(_, _)
ISqrtIter(n, x) ==
    LET y == (x + n \div x) \div 2
    IN  IF y >= x THEN x ELSE ISqrtIter(n, y)

ISqrt(n) == IF n < 2 THEN n ELSE ISqrtIter(n, n)

IsSquare(n) == ISqrt(n) * ISqrt(n) = n

\* resolution of an inexact square root
SqrtDen == 2 ^ 4

\* largest numerator and denominator an inexact square root is taken of
SqrtMax == 2 ^ 14

\* n/d with both halved until they fit SqrtMax
RECURSIVE Shrink(_, _)
Shrink(n, d) ==
    IF n <= SqrtMax /\ d <= SqrtMax THEN <<n, d>> ELSE Shrink(n \div 2, d \div 2)

\* f64::sqrt: exact on squares, otherwise rounded down
FSqrt(a) ==
    IF IsNaN(a) \/ a[1] < 0 THEN NaN
    ELSE IF IsInf(a) THEN PInf
    ELSE IF IsSquare(a[1]) /\ IsSquare(a[2]) THEN <<ISqrt(a[1]), ISqrt(a[2])>>
    ELSE LET s == Shrink(a[1], a[2])
         IN  IF s[2] = 0 THEN Canon(ISqrt(a[1] \div a[2]), 1)
             ELSE Canon(ISqrt((s[1] * SqrtDen * SqrtDen) \div s[2]), SqrtDen)

----------------------------------------------------------------------------
(* Vec2                                                                    *)

Vec(x, y) == [x |-> x, y |-> y]

\* Vec2 with integer coordinates
V(i, j) == Vec(F(i, 1), F(j, 1))

VZero == V(0, 0)

VAdd(a, b) == Vec(FAdd(a.x, b.x), FAdd(a.y, b.y))

VSub(a, b) == Vec(FSub(a.x, b.x), FSub(a.y, b.y))

dot(a, b) == FAdd(FMul(a.x, b.x), FMul(a.y, b.y))

norm(a) == FSqrt(FAdd(FMul(a.x, a.x), FMul(a.y, a.y)))

mul(a, s) == Vec(FMul(a.x, s), FMul(a.y, s))

align_quadrant(self, align) ==
    LET reduced_x == FDiv(align.x, FAbs(align.x))
        reduced_y == FDiv(align.y, FAbs(align.y))
    IN  Vec(FMul(self.x, reduced_x), FMul(self.y, reduced_y))

unit(self) ==
    IF FEq(norm(self), Zero) THEN VZero
    ELSE mul(self, FDiv(One, norm(self)))

scale_to(self, vector) ==
    LET aligned_vector == align_quadrant(vector, self)
        scale_x == FDiv(aligned_vector.x, self.x)
        scale_y == FDiv(aligned_vector.y, self.y)
        scale == FMin(FAbs(scale_x), FAbs(scale_y))
    IN  mul(self, scale)

projection_onto(self, vector) ==
    IF FEq(vector.x, Zero) /\ FEq(vector.y, Zero) THEN VZero
    ELSE mul(vector, FDiv(dot(self, vector), dot(vector, vector)))

orthogonalise(self, vector) == VSub(self, projection_onto(self, vector))

\* Vec2::unit of physics/world.rs, the Vec2 that body.rs and shape.rs import
world_unit(self) == mul(self, FDiv(One, norm(self)))

\* Vec2::projection_onto of physics/world.rs
world_projection_onto(self, vector) ==
    mul(vector, FDiv(dot(self, vector), norm(vector)))

VFinite(a) == IsFinite(a.x) /\ IsFinite(a.y)

----------------------------------------------------------------------------
(* Option values: None is the empty sequence, Some(v) the sequence <<v>>   *)

None == <<>>

Some(v) == <<v>>

IsSome(o) == Len(o) = 1

Unwrap(o) == o[1]

----------------------------------------------------------------------------
(* Rect shape                                                              *)

\* (x1, y1, x2, y2) of a Rect of half extents hw, hh centred at pos
bounds(hw, hh, pos) ==
    [x1 |-> FSub(pos.x, hw), y1 |-> FSub(pos.y, hh),
     x2 |-> FAdd(pos.x, hw), y2 |-> FAdd(pos.y, hh)]

rect_mass(hw, hh, density) ==
    FMul(FMul(FMul(hw, F(2, 1)), FMul(hh, F(2, 1))), density)

contains(hw, hh, pos, point) ==
    LET b == bounds(hw, hh, pos)
    IN  /\ FLe(b.x1, point.x)
        /\ FLe(point.x, b.x2)
        /\ FLe(b.y1, point.y)
        /\ FLe(point.y, b.y2)

\* lines_intersect without the negation in t
lines_intersect_unsigned(p1, d1, p2, d2) ==
    LET x00 == p1.x
        y00 == p1.y
        x01 == d1.x
        y01 == d1.y
        x10 == p2.x
        y10 == p2.y
        x11 == d2.x
        y11 == d2.y
        d == FSub(FMul(x11, y01), FMul(x01, y11))
        at(t) == IF FGe(t, Zero) /\ FLe(t, One) THEN Some(VAdd(p1, mul(d1, t)))
                 ELSE None
    IN  at(FMul(FDiv(One, d),
                FAdd(FMul(FNeg(FSub(x00, x10)), y11),
                     FMul(FSub(y00, y10), x11))))

lines_intersect(p1, d1, p2, d2) ==
    LET x00 == p1.x
        y00 == p1.y
        x01 == d1.x
        y01 == d1.y
        x10 == p2.x
        y10 == p2.y
        x11 == d2.x
        y11 == d2.y
        d == FSub(FMul(x11, y01), FMul(x01, y11))
        at(t) == IF FGe(t, Zero) /\ FLe(t, One) THEN Some(VAdd(p1, mul(d1, t)))
                 ELSE None
    IN  at(FMul(FDiv(One, d),
                FNeg(FAdd(FMul(FNeg(FSub(x00, x10)), y11),
                          FMul(FSub(y00, y10), x11)))))

\* the four edges of the rectangle, in the order cast_ray visits them
borders(hw, hh, pos) ==
    LET border_lines(b) ==
            << <<Vec(b.x1, b.y1), Vec(Zero, FSub(b.y2, b.y1))>>,
               <<Vec(b.x1, b.y2), Vec(FSub(b.x2, b.x1), Zero)>>,
               <<Vec(b.x2, b.y1), Vec(Zero, FSub(b.y2, b.y1))>>,
               <<Vec(b.x1, b.y1), Vec(FSub(b.x2, b.x1), Zero)>> >>
    IN  border_lines(bounds(hw, hh, pos))

\* one iteration of cast_ray's loop; acc = <<lowest_norm, closest_inter>>
cast_ray_step(acc, origin, dir, border) ==
    LET closer(inter) ==
            IF IsSome(inter) /\ FLt(norm(Unwrap(inter)), acc[1])
            THEN <<norm(Unwrap(inter)), inter>>
            ELSE acc
    IN  closer(lines_intersect(origin, dir, border[1], border[2]))

RECURSIVE cast_ray_loop(_, _, _, _, _)
cast_ray_loop(acc, origin, dir, bs, k) ==
    IF k > Len(bs) THEN acc
    ELSE cast_ray_loop(cast_ray_step(acc, origin, dir, bs[k]), origin, dir, bs, k + 1)

\* lowest_norm starts at f64::MAX: every finite norm is below it, and an
\* infinite or NaN norm is not, exactly as for +infinity
cast_ray(hw, hh, pos, origin, dir) ==
    cast_ray_loop(<<PInf, None>>, origin, dir, borders(hw, hh, pos), 1)[2]

\* collides_with taking an overlap as wide as tall for a top/bottom contact
collides_with_wide_or_equal(hw, hh, self_pos, ohw, ohh, other_pos) ==
    LET collision(collision_point, self_collision_normal) ==
            Some([point_a |-> collision_point,
                  point_b |-> collision_point,
                  normal_a |-> self_collision_normal,
                  normal_b |-> mul(self_collision_normal, F(-1, 1))])
        at_point(s, ix1, iy1, ix2, iy2, collision_point) ==
            collision(collision_point,
                      IF FGe(FSub(ix2, ix1), FSub(iy2, iy1))
                      THEN (IF FLt(collision_point.y, FDiv(FAdd(s.y1, s.y2), F(2, 1)))
                            THEN V(0, 1) ELSE V(0, -1))
                      ELSE (IF FLt(collision_point.x, FDiv(FAdd(s.x1, s.x2), F(2, 1)))
                            THEN V(1, 0) ELSE V(-1, 0)))
        intersection(s, ix1, iy1, ix2, iy2) ==
            at_point(s, ix1, iy1, ix2, iy2,
                     Vec(FDiv(FAdd(ix1, ix2), F(2, 1)), FDiv(FAdd(iy1, iy2), F(2, 1))))
        of_bounds(s, o) ==
            IF \/ FLt(s.y2, o.y1)
               \/ FGt(s.y1, o.y2)
               \/ FGt(s.x1, o.x2)
               \/ FLt(s.x2, o.x1)
            THEN None
            ELSE intersection(s, FMax(s.x1, o.x1), FMax(s.y1, o.y1),
                              FMin(s.x2, o.x2), FMin(s.y2, o.y2))
    IN  of_bounds(bounds(hw, hh, self_pos), bounds(ohw, ohh, other_pos))

\* collides_with with normal_a pointing to the overlap, towards the other body
collides_with_toward_other(hw, hh, self_pos, ohw, ohh, other_pos) ==
    LET collision(collision_point, self_collision_normal) ==
            Some([point_a |-> collision_point,
                  point_b |-> collision_point,
                  normal_a |-> self_collision_normal,
                  normal_b |-> mul(self_collision_normal, F(-1, 1))])
        at_point(s, ix1, iy1, ix2, iy2, collision_point) ==
            collision(collision_point,
                      IF FGt(FSub(ix2, ix1), FSub(iy2, iy1))
                      THEN (IF FLt(collision_point.y, FDiv(FAdd(s.y1, s.y2), F(2, 1)))
                            THEN V(0, -1) ELSE V(0, 1))
                      ELSE (IF FLt(collision_point.x, FDiv(FAdd(s.x1, s.x2), F(2, 1)))
                            THEN V(-1, 0) ELSE V(1, 0)))
        intersection(s, ix1, iy1, ix2, iy2) ==
            at_point(s, ix1, iy1, ix2, iy2,
                     Vec(FDiv(FAdd(ix1, ix2), F(2, 1)), FDiv(FAdd(iy1, iy2), F(2, 1))))
        of_bounds(s, o) ==
            IF \/ FLt(s.y2, o.y1)
               \/ FGt(s.y1, o.y2)
               \/ FGt(s.x1, o.x2)
               \/ FLt(s.x2, o.x1)
            THEN None
            ELSE intersection(s, FMax(s.x1, o.x1), FMax(s.y1, o.y1),
                              FMin(s.x2, o.x2), FMin(s.y2, o.y2))
    IN  of_bounds(bounds(hw, hh, self_pos), bounds(ohw, ohh, other_pos))

\* collides_with taking rectangles that only touch for separate
collides_with_open(hw, hh, self_pos, ohw, ohh, other_pos) ==
    LET collision(collision_point, self_collision_normal) ==
            Some([point_a |-> collision_point,
                  point_b |-> collision_point,
                  normal_a |-> self_collision_normal,
                  normal_b |-> mul(self_collision_normal, F(-1, 1))])
        at_point(s, ix1, iy1, ix2, iy2, collision_point) ==
            collision(collision_point,
                      IF FGt(FSub(ix2, ix1), FSub(iy2, iy1))
                      THEN (IF FLt(collision_point.y, FDiv(FAdd(s.y1, s.y2), F(2, 1)))
                            THEN V(0, 1) ELSE V(0, -1))
                      ELSE (IF FLt(collision_point.x, FDiv(FAdd(s.x1, s.x2), F(2, 1)))
                            THEN V(1, 0) ELSE V(-1, 0)))
        intersection(s, ix1, iy1, ix2, iy2) ==
            at_point(s, ix1, iy1, ix2, iy2,
                     Vec(FDiv(FAdd(ix1, ix2), F(2, 1)), FDiv(FAdd(iy1, iy2), F(2, 1))))
        of_bounds(s, o) ==
            IF \/ FLe(s.y2, o.y1)
               \/ FGe(s.y1, o.y2)
               \/ FGe(s.x1, o.x2)
               \/ FLe(s.x2, o.x1)
            THEN None
            ELSE intersection(s, FMax(s.x1, o.x1), FMax(s.y1, o.y1),
                              FMin(s.x2, o.x2), FMin(s.y2, o.y2))
    IN  of_bounds(bounds(hw, hh, self_pos), bounds(ohw, ohh, other_pos))

\* collides_with comparing the contact point with the lower corner of self
\* instead of its centre
collides_with_from_corner(hw, hh, self_pos, ohw, ohh, other_pos) ==
    LET collision(collision_point, self_collision_normal) ==
            Some([point_a |-> collision_point,
                  point_b |-> collision_point,
                  normal_a |-> self_collision_normal,
                  normal_b |-> mul(self_collision_normal, F(-1, 1))])
        at_point(s, ix1, iy1, ix2, iy2, collision_point) ==
            collision(collision_point,
                      IF FGt(FSub(ix2, ix1), FSub(iy2, iy1))
                      THEN (IF FLt(collision_point.y, s.y1)
                            THEN V(0, 1) ELSE V(0, -1))
                      ELSE (IF FLt(collision_point.x, s.x1)
                            THEN V(1, 0) ELSE V(-1, 0)))
        intersection(s, ix1, iy1, ix2, iy2) ==
            at_point(s, ix1, iy1, ix2, iy2,
                     Vec(FDiv(FAdd(ix1, ix2), F(2, 1)), FDiv(FAdd(iy1, iy2), F(2, 1))))
        of_bounds(s, o) ==
            IF \/ FLt(s.y2, o.y1)
               \/ FGt(s.y1, o.y2)
               \/ FGt(s.x1, o.x2)
               \/ FLt(s.x2, o.x1)
            THEN None
            ELSE intersection(s, FMax(s.x1, o.x1), FMax(s.y1, o.y1),
                              FMin(s.x2, o.x2), FMin(s.y2, o.y2))
    IN  of_bounds(bounds(hw, hh, self_pos), bounds(ohw, ohh, other_pos))

collides_with(hw, hh, self_pos, ohw, ohh, other_pos) ==
    LET collision(collision_point, self_collision_normal) ==
            Some([point_a |-> collision_point,
                  point_b |-> collision_point,
                  normal_a |-> self_collision_normal,
                  normal_b |-> mul(self_collision_normal, F(-1, 1))])
        at_point(s, ix1, iy1, ix2, iy2, collision_point) ==
            collision(collision_point,
                      IF FGt(FSub(ix2, ix1), FSub(iy2, iy1))
                      THEN (IF FLt(collision_point.y, FDiv(FAdd(s.y1, s.y2), F(2, 1)))
                            THEN V(0, 1) ELSE V(0, -1))
                      ELSE (IF FLt(collision_point.x, FDiv(FAdd(s.x1, s.x2), F(2, 1)))
                            THEN V(1, 0) ELSE V(-1, 0)))
        intersection(s, ix1, iy1, ix2, iy2) ==
            at_point(s, ix1, iy1, ix2, iy2,
                     Vec(FDiv(FAdd(ix1, ix2), F(2, 1)), FDiv(FAdd(iy1, iy2), F(2, 1))))
        of_bounds(s, o) ==
            IF \/ FLt(s.y2, o.y1)
               \/ FGt(s.y1, o.y2)
               \/ FGt(s.x1, o.x2)
               \/ FLt(s.x2, o.x1)
            THEN None
            ELSE intersection(s, FMax(s.x1, o.x1), FMax(s.y1, o.y1),
                              FMin(s.x2, o.x2), FMin(s.y2, o.y2))
    IN  of_bounds(bounds(hw, hh, self_pos), bounds(ohw, ohh, other_pos))

----------------------------------------------------------------------------
(* Body                                                                    *)

BodyTypes == {"Static", "Kinematic", "Dynamic"}

\* Body::new followed by the caller's assignment of the public pos and vel
NewBody(body_type, hw, hh, density, restitution, friction, pos, vel) ==
    [body_type |-> body_type, hw |-> hw, hh |-> hh,
     density |-> density, restitution |-> restitution, friction |-> friction,
     pos |-> pos, vel |-> vel,
     applied_forces |-> <<>>, applied_impulses |-> <<>>,
     applied_friction |-> <<>>,
     prev_net_force |-> VZero, on_ground |-> FALSE]

mass(b) == rect_mass(b.hw, b.hh, b.density)

momentum(b) == mul(b.vel, mass(b))

\* is_static as its name reads: true of Static bodies only
is_static_by_name(b) == b.body_type = "Static"

is_static(b) == b.body_type # "Dynamic"

RECURSIVE VSum(_, _)
VSum(vs, k) == IF k > Len(vs) THEN VZero ELSE VAdd(vs[k], VSum(vs, k + 1))

\* the loop over applied_forces keeping the last force instead of the sum
RECURSIVE sum_forces_last(_, _, _)
sum_forces_last(net, fs, k) ==
    IF k > Len(fs) THEN net ELSE sum_forces_last(fs[k], fs, k + 1)

RECURSIVE sum_forces(_, _, _)
sum_forces(net, fs, k) ==
    IF k > Len(fs) THEN net ELSE sum_forces(VAdd(net, fs[k]), fs, k + 1)

RECURSIVE sum_impulses(_, _, _, _)
sum_impulses(net, js, dt, k) ==
    IF k > Len(js) THEN net
    ELSE sum_impulses(VAdd(net, mul(js[k], FDiv(One, dt))), js, dt, k + 1)

current_net_force(b, dt) ==
    sum_impulses(sum_forces(VZero, b.applied_forces, 1), b.applied_impulses, dt, 1)

\* the friction loop of Body::update
RECURSIVE friction_loop(_, _, _, _, _)
friction_loop(net_force, required_impulse, fs, dt, k) ==
    IF k > Len(fs) THEN net_force
    ELSE LET f == fs[k]
             component_momentum == orthogonalise(required_impulse, f)
             unit_component_momentum == unit(component_momentum)
             resultant_norm == FMin(norm(mul(f, FDiv(One, dt))),
                                    norm(required_impulse))
         IN  friction_loop(VSub(net_force, mul(unit_component_momentum, resultant_norm)),
                           required_impulse, fs, dt, k + 1)

\* the net force Body::update integrates: the applied forces, the applied
\* impulses over dt, less the friction
update_net_force(b, dt) ==
    friction_loop(current_net_force(b, dt), momentum(b), b.applied_friction, dt, 1)

\* the velocity Body::update leaves a body with
update_vel(b, dt, net_force) ==
    IF b.body_type = "Dynamic"
    THEN VAdd(b.vel, mul(mul(net_force, FDiv(One, mass(b))), dt))
    ELSE b.vel

\* Body::update integrating the position of every body type
BodyUpdate_moves_static(b, dt) ==
    LET moved(net_force, vel1) ==
            [b EXCEPT !.vel = vel1, !.pos = VAdd(b.pos, mul(vel1, dt)),
                      !.prev_net_force = IF b.body_type = "Dynamic" THEN net_force ELSE @,
                      !.applied_forces = <<>>, !.applied_impulses = <<>>,
                      !.applied_friction = <<>>]
        accelerated(net_force) == moved(net_force, update_vel(b, dt, net_force))
    IN  accelerated(update_net_force(b, dt))

\* Body::update clearing the accumulators of the bodies it moves only
BodyUpdate_keeps_static_queues(b, dt) ==
    LET moved(net_force, vel1) ==
            [b EXCEPT !.vel = vel1, !.pos = VAdd(b.pos, mul(vel1, dt)),
                      !.prev_net_force = IF b.body_type = "Dynamic" THEN net_force ELSE @,
                      !.applied_forces = <<>>, !.applied_impulses = <<>>,
                      !.applied_friction = <<>>]
        accelerated(net_force) == moved(net_force, update_vel(b, dt, net_force))
    IN  IF b.body_type = "Static" THEN b ELSE accelerated(update_net_force(b, dt))

BodyUpdate(b, dt) ==
    LET moved(net_force, vel1) ==
            [b EXCEPT !.vel = vel1,
                      !.pos = IF b.body_type # "Static" THEN VAdd(b.pos, mul(vel1, dt)) ELSE @,
                      !.prev_net_force = IF b.body_type = "Dynamic" THEN net_force ELSE @,
                      !.applied_forces = <<>>, !.applied_impulses = <<>>,
                      !.applied_friction = <<>>]
        accelerated(net_force) == moved(net_force, update_vel(b, dt, net_force))
    IN  accelerated(update_net_force(b, dt))

apply_force(b, force) == [b EXCEPT !.applied_forces = Append(@, force)]

apply_impulse(b, impulse) == [b EXCEPT !.applied_impulses = Append(@, impulse)]

apply_friction(b, friction) == [b EXCEPT !.applied_friction = Append(@, friction)]

----------------------------------------------------------------------------
(* Collision resolution (space.rs)                                         *)

VELOCITY_THRESHOLD == One

\* cos(GROUND_ANGLE)^2 for GROUND_ANGLE = 3.14/16, rounded to three places
GroundCosSq == F(962, 1000)

\* v.angle_with((0, -1)).abs() < GROUND_ANGLE, decided on the cosine: the
\* angle is NaN for the zero vector and the comparison is then false
within_ground_angle(v) ==
    /\ VFinite(v)
    /\ FLt(v.y, Zero)
    /\ FGt(FMul(v.y, v.y), FMul(GroundCosSq, dot(v, v)))

relative_speed(b1, b2) == norm(VSub(b1.vel, b2.vel))

\* the mean restitution at every relative speed
collision_restitution_mean(b1, b2) ==
    FDiv(FAdd(b1.restitution, b2.restitution), F(2, 1))

collision_restitution(b1, b2) ==
    IF FLt(relative_speed(b1, b2), VELOCITY_THRESHOLD) THEN Zero
    ELSE FDiv(FAdd(b1.restitution, b2.restitution), F(2, 1))

\* get_collision_impulses sharing the momentum with a Static body as with a
\* Dynamic one
collision_impulses_shared(collision, b1, b2) ==
    LET both_dynamic == TRUE
        momentum1 == IF ~both_dynamic /\ is_static(b1) THEN VZero ELSE momentum(b1)
        momentum2 == IF ~both_dynamic /\ is_static(b2) THEN VZero ELSE momentum(b2)
        total_momentum == IF both_dynamic THEN VAdd(momentum1, momentum2) ELSE VZero
        restored(deformation_impulse1, deformation_impulse2, restitution) ==
            [i1 |-> VAdd(deformation_impulse1, mul(deformation_impulse1, restitution)),
             i2 |-> VAdd(deformation_impulse2, mul(deformation_impulse2, restitution)),
             ground1 |-> within_ground_angle(deformation_impulse1),
             ground2 |-> within_ground_angle(deformation_impulse2),
             restitution |-> restitution]
        deformed(final_velocity) ==
            restored(projection_onto(VSub(mul(final_velocity, mass(b1)), momentum1),
                                     collision.normal_a),
                     projection_onto(VSub(mul(final_velocity, mass(b2)), momentum2),
                                     collision.normal_a),
                     collision_restitution(b1, b2))
    IN  deformed(mul(total_momentum, FDiv(One, FAdd(mass(b1), mass(b2)))))

\* get_collision_impulses without the projection onto the contact normal
collision_impulses_unprojected(collision, b1, b2) ==
    LET both_dynamic == ~is_static(b1) /\ ~is_static(b2)
        momentum1 == IF ~both_dynamic /\ is_static(b1) THEN VZero ELSE momentum(b1)
        momentum2 == IF ~both_dynamic /\ is_static(b2) THEN VZero ELSE momentum(b2)
        total_momentum == IF both_dynamic THEN VAdd(momentum1, momentum2) ELSE VZero
        restored(deformation_impulse1, deformation_impulse2, restitution) ==
            [i1 |-> VAdd(deformation_impulse1, mul(deformation_impulse1, restitution)),
             i2 |-> VAdd(deformation_impulse2, mul(deformation_impulse2, restitution)),
             ground1 |-> within_ground_angle(deformation_impulse1),
             ground2 |-> within_ground_angle(deformation_impulse2),
             restitution |-> restitution]
        deformed(final_velocity) ==
            restored(VSub(mul(final_velocity, mass(b1)), momentum1),
                     VSub(mul(final_velocity, mass(b2)), momentum2),
                     collision_restitution(b1, b2))
    IN  deformed(mul(total_momentum, FDiv(One, FAdd(mass(b1), mass(b2)))))

\* the record get_collision_impulses computes; i1 and i2 are its result
collision_impulses(collision, b1, b2) ==
    LET both_dynamic == ~is_static(b1) /\ ~is_static(b2)
        momentum1 == IF ~both_dynamic /\ is_static(b1) THEN VZero ELSE momentum(b1)
        momentum2 == IF ~both_dynamic /\ is_static(b2) THEN VZero ELSE momentum(b2)
        total_momentum == IF both_dynamic THEN VAdd(momentum1, momentum2) ELSE VZero
        restored(deformation_impulse1, deformation_impulse2, restitution) ==
            [i1 |-> VAdd(deformation_impulse1, mul(deformation_impulse1, restitution)),
             i2 |-> VAdd(deformation_impulse2, mul(deformation_impulse2, restitution)),
             ground1 |-> within_ground_angle(deformation_impulse1),
             ground2 |-> within_ground_angle(deformation_impulse2),
             restitution |-> restitution]
        deformed(final_velocity) ==
            restored(projection_onto(VSub(mul(final_velocity, mass(b1)), momentum1),
                                     collision.normal_a),
                     projection_onto(VSub(mul(final_velocity, mass(b2)), momentum2),
                                     collision.normal_a),
                     collision_restitution(b1, b2))
    IN  deformed(mul(total_momentum, FDiv(One, FAdd(mass(b1), mass(b2)))))

\* the displacement apply_collision_position_correction derives from the ray
correction_displacement(collision, b1) ==
    LET centre_point == collision.point_a
        correction_vector == collision.normal_a
        displacement(penetration_vector) ==
            IF IsSome(penetration_vector)
            THEN scale_to(correction_vector, VSub(centre_point, Unwrap(penetration_vector)))
            ELSE VZero
    IN  displacement(cast_ray(b1.hw, b1.hh, b1.pos, centre_point,
                              mul(correction_vector, F(-5, 1))))

\* apply_collision_position_correction moving a lone movable body by the
\* displacement itself instead of twice the displacement
apply_collision_position_correction_single(collision, b1, b2) ==
    LET corrected(displacement) ==
            <<IF ~is_static(b1) THEN [b1 EXCEPT !.pos = VAdd(b1.pos, displacement)] ELSE b1,
              IF ~is_static(b2) THEN [b2 EXCEPT !.pos = VSub(b2.pos, displacement)] ELSE b2>>
    IN  corrected(correction_displacement(collision, b1))

\* the pair <<b1, b2>> after apply_collision_position_correction
apply_collision_position_correction(collision, b1, b2) ==
    LET corrected(displacement) ==
            IF ~is_static(b1) /\ ~is_static(b2)
            THEN <<[b1 EXCEPT !.pos = VAdd(b1.pos, displacement)],
                   [b2 EXCEPT !.pos = VSub(b2.pos, displacement)]>>
            ELSE <<IF is_static(b2) /\ ~is_static(b1)
                   THEN [b1 EXCEPT !.pos = VAdd(b1.pos, mul(displacement, F(2, 1)))]
                   ELSE b1,
                   IF is_static(b1) /\ ~is_static(b2)
                   THEN [b2 EXCEPT !.pos = VSub(b2.pos, mul(displacement, F(2, 1)))]
                   ELSE b2>>
    IN  corrected(correction_displacement(collision, b1))

\* b1 and b2 with on_ground set as get_collision_impulses sets it
grounded(b1, b2, imp) ==
    <<[b1 EXCEPT !.on_ground = @ \/ imp.ground1],
      [b2 EXCEPT !.on_ground = @ \/ imp.ground2]>>

\* solve_collision changing the velocities at once instead of queueing
solve_collision_immediate(collision, b1, b2) ==
    LET changed(imp, moved) ==
            <<IF is_static(b1) THEN moved[1]
              ELSE [moved[1] EXCEPT !.vel = VAdd(@, mul(imp.i1, FDiv(One, mass(b1))))],
              IF is_static(b2) THEN moved[2]
              ELSE [moved[2] EXCEPT !.vel = VAdd(@, mul(imp.i2, FDiv(One, mass(b2))))]>>
        solved(imp) == changed(imp, apply_collision_position_correction(collision, b1, b2))
    IN  IF is_static(b1) /\ is_static(b2) THEN <<b1, b2>>
        ELSE solved(collision_impulses(collision, b1, b2))

\* solve_collision without its early return for two static bodies
solve_collision_no_return(collision, b1, b2) ==
    LET friction == FDiv(FAdd(b1.friction, b2.friction), F(2, 1))
        queued(imp, moved) ==
            <<apply_friction(apply_impulse(moved[1], imp.i1), mul(imp.i1, friction)),
              apply_friction(apply_impulse(moved[2], imp.i2), mul(imp.i2, friction))>>
        corrected(imp, g) ==
            queued(imp, apply_collision_position_correction(collision, g[1], g[2]))
        solved(imp) == corrected(imp, grounded(b1, b2, imp))
    IN  solved(collision_impulses(collision, b1, b2))

\* the pair <<b1, b2>> after solve_collision
solve_collision(collision, b1, b2) ==
    LET friction == FDiv(FAdd(b1.friction, b2.friction), F(2, 1))
        queued(imp, moved) ==
            <<apply_friction(apply_impulse(moved[1], imp.i1), mul(imp.i1, friction)),
              apply_friction(apply_impulse(moved[2], imp.i2), mul(imp.i2, friction))>>
        corrected(imp, g) ==
            queued(imp, apply_collision_position_correction(collision, g[1], g[2]))
        solved(imp) == corrected(imp, grounded(b1, b2, imp))
    IN  IF is_static(b1) /\ is_static(b2) THEN <<b1, b2>>
        ELSE solved(collision_impulses(collision, b1, b2))

check_body_collision(b1, b2) ==
    collides_with(b1.hw, b1.hh, b1.pos, b2.hw, b2.hh, b2.pos)

----------------------------------------------------------------------------
(* Space                                                                   *)

VARIABLES
    gravity,             \* Space::gravity
    bodies,              \* Space::bodies, the bodies behind the handles
    collision_callback,  \* TRUE when a callback is registered (Some)
    pc,                  \* "idle", or "pairs" inside the pair loop of update
    ci, cj,              \* the pair the loop of update is at
    cur_dt,              \* the dt of the running update
    cb_at,               \* collision_callback when the last update was called
    step,                \* number of Space::update calls so far
    napplied,            \* number of apply_* calls made from outside
    pre,                 \* bodies when the last update was called
    mid,                 \* bodies when its integration loop ended
    tested,              \* pairs given to check_body_collision in it
    hits,                \* the collisions it found
    called,              \* the invocations of the callback in it
    prev_hits,           \* the collisions found by the update before it
    cast,                \* a call of Rect::cast_ray: its arguments and its result
    call,                \* a call of a pure function: its arguments and its result
    hp,                  \* a Hitpoints component and the last call made on it
    world,               \* the time stop of the engine's World
    stat,                \* a stat::Handler, its channel, its saver thread, the file
    link                 \* the PhysicsThreadLink, its callers and the physics thread

vars == <<gravity, bodies, collision_callback, pc, ci, cj, cur_dt, cb_at, step,
          napplied, pre, mid, tested, hits, called, prev_hits, cast,
          call, hp, world, stat, link>>

\* the state of the program outside the physics module
outside == <<call, hp, world, stat, link>>

\* a part of the program that is not running
Unused == "unused"

NoOutside ==
    /\ call = Unused
    /\ hp = Unused
    /\ world = Unused
    /\ stat = Unused
    /\ link = Unused

space_vars ==
    <<gravity, bodies, collision_callback, pc, ci, cj, cur_dt, cb_at, step,
      napplied, pre, mid, tested, hits, called, prev_hits, cast>>

\* no call of Rect::cast_ray from outside the Space
NoCast ==
    [hw |-> Zero, hh |-> Zero, pos |-> VZero, origin |-> VZero, dir |-> VZero,
     done |-> FALSE, hit |-> None]

MaxBodies == 3
MaxSteps == 2
MaxApplied == 1

\* the bodies a caller adds: unit squares of mass 1, one of every type; two
\* at the same position overlap fully, those at (0, 0) and (1, 1) overlap in
\* a unit square, and the one at (4, 0) moves towards the others
Catalogue ==
    { NewBody("Static", One, One, F(1, 4), F(1, 2), F(1, 2), V(0, 0), V(1, 0)),
      NewBody("Kinematic", One, One, F(1, 4), F(1, 2), F(1, 2), V(4, 0), V(-2, 0)),
      NewBody("Dynamic", One, One, F(1, 4), F(1, 2), F(1, 2), V(1, 1), V(0, -1)) }

Gravities == { V(0, 2) }

Dts == { F(1, 2), F(1, 1) }

AppliedVecs == { V(2, 0) }

Init ==
    /\ gravity \in Gravities
    /\ bodies = <<>>
    /\ collision_callback = FALSE
    /\ pc = "idle"
    /\ ci = 0
    /\ cj = 0
    /\ cur_dt = One
    /\ cb_at = FALSE
    /\ step = 0
    /\ napplied = 0
    /\ pre = <<>>
    /\ mid = <<>>
    /\ tested = <<>>
    /\ hits = <<>>
    /\ called = <<>>
    /\ prev_hits = <<>>
    /\ cast = NoCast
    /\ NoOutside

AddBody(b) ==
    /\ pc = "idle"
    /\ step = 0
    /\ napplied = 0
    /\ Len(bodies) < MaxBodies
    /\ bodies' = Append(bodies, b)
    /\ UNCHANGED <<outside, cast, gravity, collision_callback, pc, ci, cj, cur_dt, cb_at, step,
                   napplied, pre, mid, tested, hits, called, prev_hits>>

SetCollisionCallback(cb) ==
    /\ pc = "idle"
    /\ step < MaxSteps
    /\ collision_callback' = cb
    /\ UNCHANGED <<outside, cast, gravity, bodies, pc, ci, cj, cur_dt, cb_at, step, napplied,
                   pre, mid, tested, hits, called, prev_hits>>

Applied(k, nb) ==
    /\ pc = "idle"
    /\ step < MaxSteps
    /\ napplied < MaxApplied
    /\ napplied' = napplied + 1
    /\ bodies' = [bodies EXCEPT ![k] = nb]
    /\ UNCHANGED <<outside, cast, gravity, collision_callback, pc, ci, cj, cur_dt, cb_at, step,
                   pre, mid, tested, hits, called, prev_hits>>

ApplyForce(k, f) == Applied(k, apply_force(bodies[k], f))

ApplyImpulse(k, j) == Applied(k, apply_impulse(bodies[k], j))

ApplyFriction(k, f) == Applied(k, apply_friction(bodies[k], f))

\* the first loop of Space::update, on one body
integrate(b, g, dt) ==
    BodyUpdate(IF b.body_type = "Dynamic" THEN apply_force(b, mul(g, mass(b))) ELSE b,
               dt)

\* the inner loop starting at the outer body itself
first_j_self(i) == i

\* the index the inner loop starts at for the outer index i (split_at_mut(i + 1))
first_j(i) == i + 1

\* Space::update up to the end of its first loop, as one of at most n updates
UpdateWithin(dt, n) ==
    /\ pc = "idle"
    /\ step < n
    /\ step' = step + 1
    /\ cur_dt' = dt
    /\ cb_at' = collision_callback
    /\ pre' = bodies
    /\ bodies' = [k \in 1..Len(bodies) |-> integrate(bodies[k], gravity, dt)]
    /\ mid' = bodies'
    /\ prev_hits' = hits
    /\ tested' = <<>>
    /\ hits' = <<>>
    /\ called' = <<>>
    /\ IF Len(bodies) > 1
       THEN pc' = "pairs" /\ ci' = 1 /\ cj' = first_j(1)
       ELSE pc' = "idle" /\ ci' = 0 /\ cj' = 0
    /\ UNCHANGED <<outside, cast, gravity, collision_callback, napplied>>

UpdateBegin(dt) == UpdateWithin(dt, MaxSteps)

\* the callback invoked before solve_collision
callback_bodies_unsolved(b1, b2, solved) == <<b1, b2>>

\* the bodies func(c, &mut *b1, &mut *b2) is given: those solve_collision left
callback_bodies(b1, b2, solved) == solved

\* the pair loop testing and solving every pair at the positions the
\* integration loop left
PairStep_from_integration ==
    /\ pc = "pairs"
    /\ LET b1 == [bodies[ci] EXCEPT !.pos = mid[ci].pos]
           b2 == [bodies[cj] EXCEPT !.pos = mid[cj].pos]
           resolved(collision, solved, given) ==
               /\ tested' = Append(tested, <<ci, cj>>)
               /\ bodies' = [bodies EXCEPT ![ci] = solved[1], ![cj] = solved[2]]
               /\ hits' = IF IsSome(collision)
                          THEN Append(hits, [i |-> ci, j |-> cj,
                                             collision |-> Unwrap(collision),
                                             before |-> <<b1, b2>>,
                                             after |-> solved])
                          ELSE hits
               /\ called' = IF IsSome(collision) /\ collision_callback
                            THEN Append(called, [i |-> ci, j |-> cj,
                                                 collision |-> Unwrap(collision),
                                                 b1 |-> given[1], b2 |-> given[2]])
                            ELSE called
           checked(collision, solved) ==
               resolved(collision, solved, callback_bodies(b1, b2, solved))
           pair(collision) ==
               checked(collision,
                       IF IsSome(collision)
                       THEN solve_collision(Unwrap(collision), b1, b2)
                       ELSE <<b1, b2>>)
       IN  pair(check_body_collision(b1, b2))
    /\ IF cj < Len(bodies)
       THEN pc' = "pairs" /\ ci' = ci /\ cj' = cj + 1
       ELSE IF ci + 1 < Len(bodies)
            THEN pc' = "pairs" /\ ci' = ci + 1 /\ cj' = first_j(ci + 1)
            ELSE pc' = "idle" /\ ci' = 0 /\ cj' = 0
    /\ UNCHANGED <<outside, cast, gravity, collision_callback, cur_dt, cb_at, step, napplied,
                   pre, mid, prev_hits>>

\* one iteration of the inner loop of Space::update, on the pair (ci, cj); the
\* callback is the caller's code and is modelled by the record of its call
PairStep ==
    /\ pc = "pairs"
    /\ LET b1 == bodies[ci]
           b2 == bodies[cj]
           resolved(collision, solved, given) ==
               /\ tested' = Append(tested, <<ci, cj>>)
               /\ bodies' = [bodies EXCEPT ![ci] = solved[1], ![cj] = solved[2]]
               /\ hits' = IF IsSome(collision)
                          THEN Append(hits, [i |-> ci, j |-> cj,
                                             collision |-> Unwrap(collision),
                                             before |-> <<b1, b2>>,
                                             after |-> solved])
                          ELSE hits
               /\ called' = IF IsSome(collision) /\ collision_callback
                            THEN Append(called, [i |-> ci, j |-> cj,
                                                 collision |-> Unwrap(collision),
                                                 b1 |-> given[1], b2 |-> given[2]])
                            ELSE called
           checked(collision, solved) ==
               resolved(collision, solved, callback_bodies(b1, b2, solved))
           pair(collision) ==
               checked(collision,
                       IF IsSome(collision)
                       THEN solve_collision(Unwrap(collision), b1, b2)
                       ELSE <<b1, b2>>)
       IN  pair(check_body_collision(b1, b2))
    /\ IF cj < Len(bodies)
       THEN pc' = "pairs" /\ ci' = ci /\ cj' = cj + 1
       ELSE IF ci + 1 < Len(bodies)
            THEN pc' = "pairs" /\ ci' = ci + 1 /\ cj' = first_j(ci + 1)
            ELSE pc' = "idle" /\ ci' = 0 /\ cj' = 0
    /\ UNCHANGED <<outside, cast, gravity, collision_callback, cur_dt, cb_at, step, napplied,
                   pre, mid, prev_hits>>

Next ==
    \/ \E b \in Catalogue : AddBody(b)
    \/ \E cb \in BOOLEAN : SetCollisionCallback(cb)
    \/ \E k \in 1..Len(bodies), f \in AppliedVecs : ApplyForce(k, f)
    \/ \E k \in 1..Len(bodies), j \in AppliedVecs : ApplyImpulse(k, j)
    \/ \E k \in 1..Len(bodies), f \in AppliedVecs : ApplyFriction(k, f)
    \/ \E dt \in Dts : UpdateBegin(dt)
    \/ PairStep

Spec == Init /\ [][Next]_vars

----------------------------------------------------------------------------
(* A Space holding one Dynamic body                                        *)

LoneForces == { V(2, 0), V(0, -3) }

LoneImpulses == { V(-1, 0), V(1, 2) }

UpTo2(S) == { <<>> } \cup { <<a>> : a \in S } \cup { <<a, b>> : a, b \in S }

\* squares of side 2 and of mass 10 and 1, at rest at the origin or moving
LoneBodies ==
    { NewBody("Dynamic", One, One, d, F(1, 2), F(1, 2), p, v) :
        d \in { F(5, 2), F(1, 4) }, p \in { V(0, 0), V(1, 1) },
        v \in { V(0, 0), V(1, -1) } }

LoneGravities == { Vec(Zero, F(981, 100)), V(0, 2) }

\* Space::new, add_body and the apply_force and apply_impulse calls made
\* before the first update
InitLone ==
    /\ gravity \in LoneGravities
    /\ \E b \in LoneBodies, fs \in UpTo2(LoneForces), js \in UpTo2(LoneImpulses) :
          bodies = <<[b EXCEPT !.applied_forces = fs, !.applied_impulses = js]>>
    /\ collision_callback = FALSE
    /\ pc = "idle"
    /\ ci = 0
    /\ cj = 0
    /\ cur_dt = One
    /\ cb_at = FALSE
    /\ step = 0
    /\ napplied = 0
    /\ pre = <<>>
    /\ mid = <<>>
    /\ tested = <<>>
    /\ hits = <<>>
    /\ called = <<>>
    /\ prev_hits = <<>>
    /\ cast = NoCast
    /\ NoOutside

NextLone ==
    \/ \E f \in AppliedVecs : ApplyForce(1, f)
    \/ \E j \in AppliedVecs : ApplyImpulse(1, j)
    \/ \E dt \in Dts : UpdateBegin(dt)

SpecLone == InitLone /\ [][NextLone]_vars

----------------------------------------------------------------------------
(* A Space holding two Dynamic bodies that meet                            *)

PairVels1 == { V(1, 1), Vec(F(1, 4), F(1, 2)), V(2, 0) }

PairVels2 == { V(-1, 0), V(0, 0) }

PairPos2 == { Vec(F(3, 2), Zero), V(1, 1) }

PairRestitutions == { One, F(1, 2) }

PairFrictions == { Zero, F(1, 2) }

PairDensities == { F(1, 4), F(1, 2) }

PairGravities == { VZero, V(0, 2) }

\* Space::new and two add_body calls: a square of side 2 at the origin and
\* one of mass 1 overlapping it
InitPair ==
    /\ gravity \in PairGravities
    /\ \E v1 \in PairVels1, v2 \in PairVels2, p2 \in PairPos2, d1 \in PairDensities,
          r1 \in PairRestitutions, r2 \in PairRestitutions, f \in PairFrictions :
          bodies = <<NewBody("Dynamic", One, One, d1, r1, f, V(0, 0), v1),
                     NewBody("Dynamic", One, One, F(1, 4), r2, f, p2, v2)>>
    /\ collision_callback = FALSE
    /\ pc = "idle"
    /\ ci = 0
    /\ cj = 0
    /\ cur_dt = One
    /\ cb_at = FALSE
    /\ step = 0
    /\ napplied = 0
    /\ pre = <<>>
    /\ mid = <<>>
    /\ tested = <<>>
    /\ hits = <<>>
    /\ called = <<>>
    /\ prev_hits = <<>>
    /\ cast = NoCast
    /\ NoOutside

NextPair ==
    \/ \E dt \in Dts : UpdateBegin(dt)
    \/ PairStep

SpecPair == InitPair /\ [][NextPair]_vars

----------------------------------------------------------------------------
(* A Space holding one Dynamic body with a friction entry                  *)

SlideVels == { V(3, 4), V(0, 1), V(-2, 1), V(1, 0) }

SlideFrictions == { V(-6, 0), V(1, 0), V(0, 2) }

SlideDensities == { F(1, 4), F(1, 2) }

SlideDts == { F(1, 2), F(1, 1), F(2, 1) }

\* Space::new without gravity, add_body and one apply_friction call
InitSlide ==
    /\ gravity = VZero
    /\ \E v \in SlideVels, d \in SlideDensities, f \in SlideFrictions :
          bodies = <<apply_friction(NewBody("Dynamic", One, One, d, F(1, 2), F(1, 2),
                                            V(0, 0), v), f)>>
    /\ collision_callback = FALSE
    /\ pc = "idle"
    /\ ci = 0
    /\ cj = 0
    /\ cur_dt = One
    /\ cb_at = FALSE
    /\ step = 0
    /\ napplied = 0
    /\ pre = <<>>
    /\ mid = <<>>
    /\ tested = <<>>
    /\ hits = <<>>
    /\ called = <<>>
    /\ prev_hits = <<>>
    /\ cast = NoCast
    /\ NoOutside

NextSlide ==
    \/ \E f \in SlideFrictions : ApplyFriction(1, f)
    \/ \E dt \in SlideDts : UpdateBegin(dt)

SpecSlide == InitSlide /\ [][NextSlide]_vars

----------------------------------------------------------------------------
(* A Space holding two rectangles of different sizes, at rest              *)

NestTypes == { <<"Dynamic", "Dynamic">>, <<"Dynamic", "Static">>,
               <<"Static", "Dynamic">>, <<"Static", "Static">> }

NestHalfWidths == { F(1, 1), F(3, 1), F(8, 1) }

NestHalfHeights == { F(1, 1), F(2, 1) }

\* where the second rectangle is put; the first is at (2, 2)
NestPositions == { V(2, 2), V(3, 2), V(4, 2), V(2, 3), V(4, 4), V(7, 2), V(1, 0) }

\* Space::new without gravity and two add_body calls
InitNest ==
    /\ gravity = VZero
    /\ \E ty \in NestTypes, hw1 \in NestHalfWidths, hh1 \in NestHalfHeights,
          hw2 \in NestHalfWidths, hh2 \in NestHalfHeights, p2 \in NestPositions :
          bodies = <<NewBody(ty[1], hw1, hh1, F(1, 4), F(1, 2), F(1, 2), V(2, 2), VZero),
                     NewBody(ty[2], hw2, hh2, F(1, 4), F(1, 2), F(1, 2), p2, VZero)>>
    /\ collision_callback = FALSE
    /\ pc = "idle"
    /\ ci = 0
    /\ cj = 0
    /\ cur_dt = One
    /\ cb_at = FALSE
    /\ step = 0
    /\ napplied = 0
    /\ pre = <<>>
    /\ mid = <<>>
    /\ tested = <<>>
    /\ hits = <<>>
    /\ called = <<>>
    /\ prev_hits = <<>>
    /\ cast = NoCast
    /\ NoOutside

NextNest ==
    \/ \E dt \in Dts : UpdateBegin(dt)
    \/ PairStep

SpecNest == InitNest /\ [][NextNest]_vars

----------------------------------------------------------------------------
(* A Space holding a Dynamic body on top of a Static ground                *)

MaxRestSteps == 6

RestGravities == { V(0, 1), V(0, 2) }

RestRestitutions == { Zero, F(1, 2), One }

\* the height of the centre of the body: its lower edge 1/2 above the upper
\* edge of the ground, on it, or 1/4 into it (y grows downwards)
RestHeights == { F(1, 2), F(1, 1), F(5, 4) }

\* the ground, a Rect 16 x 2 whose upper edge is at y = 2
Ground(r) == NewBody("Static", F(8, 1), One, F(1, 4), r, F(1, 2), V(0, 3), VZero)

\* the body, a Rect 2 x 2 of mass 1 at rest
Resting(r, y) == NewBody("Dynamic", One, One, F(1, 4), r, F(1, 2), Vec(Zero, y), VZero)

\* Space::new and the two add_body calls, in either order
InitRest ==
    /\ gravity \in RestGravities
    /\ \E r \in RestRestitutions, y \in RestHeights :
          bodies \in { <<Ground(r), Resting(r, y)>>, <<Resting(r, y), Ground(r)>> }
    /\ collision_callback = FALSE
    /\ pc = "idle"
    /\ ci = 0
    /\ cj = 0
    /\ cur_dt \in Dts
    /\ cb_at = FALSE
    /\ step = 0
    /\ napplied = 0
    /\ pre = <<>>
    /\ mid = <<>>
    /\ tested = <<>>
    /\ hits = <<>>
    /\ called = <<>>
    /\ prev_hits = <<>>
    /\ cast = NoCast
    /\ NoOutside

\* the caller steps the space with one and the same dt
UpdateRest == UpdateWithin(cur_dt, MaxRestSteps)

NextRest ==
    \/ UpdateRest
    \/ PairStep

SpecRest == InitRest /\ [][NextRest]_vars

----------------------------------------------------------------------------
(* Rect::cast_ray called on its own                                        *)

RayHalfWidths == {F(1, 1), F(2, 1)}

RayHalfHeights == {F(1, 1)}

\* the rectangle around the world origin and away from it
RayPositions == {V(0, 0), V(10, 0), V(-4, 3)}

\* where the ray starts, relative to the rectangle's centre: inside it, and
\* outside it beside, above and diagonally off it
RayOffsets == {V(0, 0), V(3, 0), V(-3, 0), V(0, 3), V(3, 3), V(3, 2)}

RayDirs == {V(-5, 0), V(5, 0), V(0, -5), V(-4, -4), V(-6, -3)}

\* the caller holds a rectangle and a ray
InitRay ==
    /\ gravity = VZero
    /\ bodies = <<>>
    /\ collision_callback = FALSE
    /\ pc = "idle"
    /\ ci = 0
    /\ cj = 0
    /\ cur_dt = Zero
    /\ cb_at = FALSE
    /\ step = 0
    /\ napplied = 0
    /\ pre = <<>>
    /\ mid = <<>>
    /\ tested = <<>>
    /\ hits = <<>>
    /\ called = <<>>
    /\ prev_hits = <<>>
    /\ \E hw \in RayHalfWidths, hh \in RayHalfHeights, pos \in RayPositions,
          off \in RayOffsets, dir \in RayDirs :
          cast = [hw |-> hw, hh |-> hh, pos |-> pos, origin |-> VAdd(pos, off),
                  dir |-> dir, done |-> FALSE, hit |-> None]
    /\ NoOutside

\* shape.cast_ray(pos, origin, dir)
CastRay ==
    /\ ~cast.done
    /\ cast' = [cast EXCEPT !.done = TRUE,
                            !.hit = cast_ray(cast.hw, cast.hh, cast.pos,
                                             cast.origin, cast.dir)]
    /\ UNCHANGED <<outside, gravity, bodies, collision_callback, pc, ci, cj, cur_dt, cb_at,
                   step, napplied, pre, mid, tested, hits, called, prev_hits>>

NextRay == CastRay

SpecRay == InitRay /\ [][NextRay]_vars

----------------------------------------------------------------------------
(* A Space updated with a dt that is not positive                          *)

NonPositiveDts == { Zero, F(-1, 2), F(-1, 1) }

NextNonPositive == \E dt \in NonPositiveDts : UpdateBegin(dt)

SpecNonPositive == InitLone /\ [][NextNonPositive]_vars

----------------------------------------------------------------------------
(* The parts of the program that hold no Space                             *)

\* no Space was made
NoSpace ==
    /\ gravity = VZero
    /\ bodies = <<>>
    /\ collision_callback = FALSE
    /\ pc = "idle"
    /\ ci = 0
    /\ cj = 0
    /\ cur_dt = Zero
    /\ cb_at = FALSE
    /\ step = 0
    /\ napplied = 0
    /\ pre = <<>>
    /\ mid = <<>>
    /\ tested = <<>>
    /\ hits = <<>>
    /\ called = <<>>
    /\ prev_hits = <<>>
    /\ cast = NoCast

----------------------------------------------------------------------------
(* Vec2::unit and Vec2::projection_onto called on their own                *)

\* the two files of the physics module that define Vec2
VecFiles == {"space.rs", "world.rs"}

VecArgs == {V(0, 0), V(3, 4), V(2, 0), V(1, 1), V(0, -2), V(-1, 2)}

\* the caller holds one vector for unit and two for projection_onto
InitVec ==
    /\ NoSpace
    /\ \E file \in VecFiles, self \in VecArgs, vector \in VecArgs :
          \/ call = [fn |-> "unit", file |-> file, self |-> self,
                     vector |-> VZero, done |-> FALSE, result |-> VZero]
          \/ call = [fn |-> "projection_onto", file |-> file, self |-> self,
                     vector |-> vector, done |-> FALSE, result |-> VZero]
    /\ hp = Unused
    /\ world = Unused
    /\ stat = Unused
    /\ link = Unused

\* self.unit()
CallUnit ==
    /\ call.fn = "unit"
    /\ ~call.done
    /\ call' = [call EXCEPT !.done = TRUE,
                            !.result = IF call.file = "space.rs"
                                       THEN unit(call.self)
                                       ELSE world_unit(call.self)]
    /\ UNCHANGED <<space_vars, hp, world, stat, link>>

\* self.projection_onto(vector)
CallProjectionOnto ==
    /\ call.fn = "projection_onto"
    /\ ~call.done
    /\ call' = [call EXCEPT !.done = TRUE,
                            !.result = IF call.file = "space.rs"
                                       THEN projection_onto(call.self, call.vector)
                                       ELSE world_projection_onto(call.self, call.vector)]
    /\ UNCHANGED <<space_vars, hp, world, stat, link>>

NextVec ==
    \/ CallUnit
    \/ CallProjectionOnto

SpecVec == InitVec /\ [][NextVec]_vars

----------------------------------------------------------------------------
(* lines_intersect called on its own                                       *)

LineP1 == {V(0, 0), V(1, 3)}

LineD1 == {V(5, 5), V(0, 6), V(-2, 0), V(4, -2)}

LineP2 == {V(2, 0), V(1, 1), V(5, 5), V(0, -3)}

LineD2 == {V(0, 6), V(5, 5), V(3, 0), V(-1, 2)}

\* the caller holds two lines, each a point and a direction
InitLines ==
    /\ NoSpace
    /\ \E p1 \in LineP1, d1 \in LineD1, p2 \in LineP2, d2 \in LineD2 :
          call = [fn |-> "lines_intersect", p1 |-> p1, d1 |-> d1, p2 |-> p2,
                  d2 |-> d2, done |-> FALSE, result |-> None]
    /\ hp = Unused
    /\ world = Unused
    /\ stat = Unused
    /\ link = Unused

\* lines_intersect(p1, d1, p2, d2)
CallLinesIntersect ==
    /\ call.fn = "lines_intersect"
    /\ ~call.done
    /\ call' = [call EXCEPT !.done = TRUE,
                            !.result = lines_intersect(call.p1, call.d1,
                                                       call.p2, call.d2)]
    /\ UNCHANGED <<space_vars, hp, world, stat, link>>

NextLines == CallLinesIntersect

SpecLines == InitLines /\ [][NextLines]_vars

----------------------------------------------------------------------------
(* engine::World: the time stop                                            *)

\* the durations given to stop_time and the frame times given to tick, in
\* units of time
StopDurs == {1, 2, 5, 8}

TickTimes == {1, 2, 3}

\* the time stops the player starts at most
MaxTimeStops == 3

\* World::new: gravity (0, 9.81) is given to the physics thread and kept as
\* normal_gravity; no time stop is active; no call was made yet
NewWorld ==
    [time_stop_remaining |-> None,
     normal_gravity |-> Vec(Zero, F(981, 100)),
     physics_gravity |-> Vec(Zero, F(981, 100)),
     num_time_stops |-> 0,
     op |-> "new", arg |-> 0, returned |-> FALSE,
     before |-> <<None, Vec(Zero, F(981, 100))>>]

InitWorld ==
    /\ NoSpace
    /\ world = NewWorld
    /\ call = Unused
    /\ hp = Unused
    /\ stat = Unused
    /\ link = Unused

\* World::start_time; physics.set_gravity is a send on a rendezvous channel
\* to the physics thread, which sets the gravity of its world
start_time(w) ==
    [w EXCEPT !.time_stop_remaining = None,
              !.physics_gravity = w.normal_gravity]

\* stop_time starting a time stop whether or not one is active
stop_time_restarting(w, dur) ==
    [w EXCEPT !.time_stop_remaining = Some(dur),
              !.physics_gravity = VZero,
              !.returned = TRUE]

\* World::stop_time
stop_time(w, dur) ==
    IF IsSome(w.time_stop_remaining)
    THEN [w EXCEPT !.returned = FALSE]
    ELSE [w EXCEPT !.time_stop_remaining = Some(dur),
                   !.physics_gravity = VZero,
                   !.returned = TRUE]

\* the end of World::tick: the time stop runs down
tick(w, time) ==
    IF IsSome(w.time_stop_remaining)
    THEN IF time >= Unwrap(w.time_stop_remaining)
         THEN start_time(w)
         ELSE [w EXCEPT !.time_stop_remaining =
                            Some(Unwrap(w.time_stop_remaining) - time)]
    ELSE w

\* what a call finds: the time stop and the gravity of the physics thread
Found(w) == <<w.time_stop_remaining, w.physics_gravity>>

\* the F key of main.rs: if world.stop_time(5.0) { stats.num_time_stops += 1; }
counted(w) ==
    IF w.returned THEN [w EXCEPT !.num_time_stops = w.num_time_stops + 1] ELSE w

StopTime(dur) ==
    /\ world.num_time_stops < MaxTimeStops
    /\ world' = counted(stop_time([world EXCEPT !.op = "stop_time", !.arg = dur,
                                                !.before = Found(world)], dur))
    /\ UNCHANGED <<space_vars, call, hp, stat, link>>

Tick(time) ==
    /\ world' = tick([world EXCEPT !.op = "tick", !.arg = time,
                                   !.before = Found(world),
                                   !.returned = FALSE], time)
    /\ UNCHANGED <<space_vars, call, hp, stat, link>>

StartTime ==
    /\ world' = start_time([world EXCEPT !.op = "start_time", !.arg = 0,
                                         !.before = Found(world),
                                         !.returned = FALSE])
    /\ UNCHANGED <<space_vars, call, hp, stat, link>>

NextWorld ==
    \/ \E dur \in StopDurs : StopTime(dur)
    \/ \E time \in TickTimes : Tick(time)
    \/ StartTime

SpecWorld == InitWorld /\ [][NextWorld]_vars

----------------------------------------------------------------------------
(* stat::Handler and its saver thread                                      *)

\* set sends a Save when send_counter has passed this number
SaveEvery == 60

\* the set calls made at most before finish
MaxSets == 124

\* the Stats values the game passes to set; 0 is the value loaded from the file
StatsValues == {1, 2}

Save(stats) == [kind |-> "Save", stats |-> stats]

Finish == [kind |-> "Finish", stats |-> 0]

\* Handler::new: the file holds the loaded stats, the channel is empty, the
\* child thread waits in receiver.recv()
InitStat ==
    /\ NoSpace
    /\ stat = [latest_stats |-> 0, send_counter |-> 0,
               channel |-> <<>>,       \* the messages sent and not yet received
               handler |-> "live",     \* "live", "joining" inside finish, "finished"
               thread |-> "running",   \* "running" or "terminated"
               file |-> 0,             \* the stats the file holds
               sets |-> 0,             \* the set calls made
               saves |-> <<>>,         \* the stats of the Save messages sent, in order
               written |-> 0]          \* the Save messages written to the file
    /\ call = Unused
    /\ hp = Unused
    /\ world = Unused
    /\ link = Unused

\* mpsc::Sender::send: the channel is unbounded and keeps the order of sending
send(channel, msg) == Append(channel, msg)

\* Handler::set
Set(stats) ==
    /\ stat.handler = "live"
    /\ stat.sets < MaxSets
    /\ stat' = IF stat.send_counter + 1 > SaveEvery
               THEN [stat EXCEPT !.latest_stats = stats,
                                 !.send_counter = 0,
                                 !.channel = send(stat.channel, Save(stats)),
                                 !.saves = Append(stat.saves, stats),
                                 !.sets = stat.sets + 1]
               ELSE [stat EXCEPT !.latest_stats = stats,
                                 !.send_counter = stat.send_counter + 1,
                                 !.sets = stat.sets + 1]
    /\ UNCHANGED <<space_vars, call, hp, world, link>>

\* Handler::finish up to thread_handle.join()
FinishSend ==
    /\ stat.handler = "live"
    /\ stat' = [stat EXCEPT !.channel = send(send(stat.channel, Save(stat.latest_stats)),
                                             Finish),
                            !.saves = Append(stat.saves, stat.latest_stats),
                            !.handler = "joining"]
    /\ UNCHANGED <<space_vars, call, hp, world, link>>

\* thread_handle.join() returns when the child thread has terminated
FinishJoin ==
    /\ stat.handler = "joining"
    /\ stat.thread = "terminated"
    /\ stat' = [stat EXCEPT !.handler = "finished"]
    /\ UNCHANGED <<space_vars, call, hp, world, link>>

\* mpsc::Receiver::recv taking the newest message instead of the oldest
recv_newest(channel) ==
    <<channel[Len(channel)], SubSeq(channel, 1, Len(channel) - 1)>>

\* mpsc::Receiver::recv: the oldest message and the channel without it
recv(channel) == <<Head(channel), Tail(channel)>>

\* one turn of the child thread's loop: a Save is written to the file, a
\* Finish ends the loop
saver_turn(s, got) ==
    IF got[1].kind = "Save"
    THEN [s EXCEPT !.channel = got[2],
                   !.file = got[1].stats,
                   !.written = s.written + 1]
    ELSE [s EXCEPT !.channel = got[2],
                   !.thread = "terminated"]

SaverStep ==
    /\ stat.thread = "running"
    /\ stat.channel # <<>>
    /\ stat' = saver_turn(stat, recv(stat.channel))
    /\ UNCHANGED <<space_vars, call, hp, world, link>>

NextStat ==
    \/ \E stats \in StatsValues : Set(stats)
    \/ FinishSend
    \/ FinishJoin
    \/ SaverStep

SpecStat == InitStat /\ [][NextStat]_vars

----------------------------------------------------------------------------
(* Rect::collides_with called from either side                             *)

\* the caller holds two rectangles, the first at (2, 2), and no result yet
InitSym ==
    /\ NoSpace
    /\ \E hw \in NestHalfWidths, hh \in NestHalfHeights,
          ohw \in NestHalfWidths, ohh \in NestHalfHeights,
          other_pos \in NestPositions :
          call = [fn |-> "collides_with", hw |-> hw, hh |-> hh, self_pos |-> V(2, 2),
                  ohw |-> ohw, ohh |-> ohh, other_pos |-> other_pos,
                  done |-> FALSE, ab |-> None, ba |-> None]
    /\ hp = Unused
    /\ world = Unused
    /\ stat = Unused
    /\ link = Unused

\* a.collides_with(a_pos, &b, b_pos) and b.collides_with(b_pos, &a, a_pos)
CallCollidesWith ==
    /\ call.fn = "collides_with"
    /\ ~call.done
    /\ call' = [call EXCEPT !.done = TRUE,
                            !.ab = collides_with(call.hw, call.hh, call.self_pos,
                                                 call.ohw, call.ohh, call.other_pos),
                            !.ba = collides_with(call.ohw, call.ohh, call.other_pos,
                                                 call.hw, call.hh, call.self_pos)]
    /\ UNCHANGED <<space_vars, hp, world, stat, link>>

NextSym == CallCollidesWith

SpecSym == InitSym /\ [][NextSym]_vars

----------------------------------------------------------------------------
(* The physics thread and the callers of PhysicsThreadLink                 *)

\* the threads that lock the link: the game loop and a system of the dispatcher
Callers == {1, 2}

\* MessageToPhysicsThread, by variant
Requests ==
    {"Step", "AddRigidBody", "RemoveRigidBody", "GetPosition", "GetHalfExtents",
     "GetRotation", "SetRotation", "GetLinVel", "SetLinVel", "GetAngVel",
     "SetAngVel", "GetInvMass", "SetInvMass", "AppendLinForce", "ClearLinForce",
     "SetGravity", "ApplyCentralImpulse", "AddFixedJoint",
     "SetCollisionGroupsKind", "AddSensor", "GetBodiesIntersectingSensor",
     "GetContacts", "GetShapeHandle"}

\* the unwrap_* a method of PhysicsThreadLink applies to what it receives
\* after sending the request, "none" for a method that only sends
unwrap_of(req) ==
    CASE req = "Step" -> "FinishStep"
      [] req = "GetPosition" -> "Position"
      [] req = "GetHalfExtents" -> "HalfExtents"
      [] req = "GetRotation" -> "Rotation"
      [] req = "GetLinVel" -> "LinVel"
      [] req = "GetAngVel" -> "AngVel"
      [] req = "GetInvMass" -> "InvMass"
      [] req = "GetBodiesIntersectingSensor" -> "BodiesIntersectingSensor"
      [] req = "GetContacts" -> "Contacts"
      [] req = "GetShapeHandle" -> "ShapeHandle"
      [] OTHER -> "none"

\* physics_thread_inner answering SetLinVel as it answers GetLinVel
reply_of_answering_set(msg) ==
    CASE msg = "Step" -> "FinishStep"
      [] msg = "GetHalfExtents" -> "HalfExtents"
      [] msg = "GetPosition" -> "Position"
      [] msg = "GetRotation" -> "Rotation"
      [] msg = "GetLinVel" -> "LinVel"
      [] msg = "SetLinVel" -> "LinVel"
      [] msg = "GetAngVel" -> "AngVel"
      [] msg = "GetInvMass" -> "InvMass"
      [] msg = "GetBodiesIntersectingSensor" -> "BodiesIntersectingSensor"
      [] msg = "GetContacts" -> "Contacts"
      [] msg = "GetShapeHandle" -> "ShapeHandle"
      [] OTHER -> "none"

\* the MessageFromPhysicsThread an arm of physics_thread_inner sends, "none"
\* for an arm that sends nothing
reply_of(msg) ==
    CASE msg = "Step" -> "FinishStep"
      [] msg = "GetHalfExtents" -> "HalfExtents"
      [] msg = "GetPosition" -> "Position"
      [] msg = "GetRotation" -> "Rotation"
      [] msg = "GetLinVel" -> "LinVel"
      [] msg = "GetAngVel" -> "AngVel"
      [] msg = "GetInvMass" -> "InvMass"
      [] msg = "GetBodiesIntersectingSensor" -> "BodiesIntersectingSensor"
      [] msg = "GetContacts" -> "Contacts"
      [] msg = "GetShapeHandle" -> "ShapeHandle"
      [] OTHER -> "none"

\* World::new: two rendezvous channels (chan::sync(0)), the link behind a
\* free mutex, the physics thread waiting in recv.iter()
InitLink ==
    /\ NoSpace
    /\ link = [mutex |-> 0,
               callers |-> [c \in Callers |->
                               [pc |-> "idle", req |-> "none", got |-> "none"]],
               to_thread |-> None,       \* a request offered and not yet taken
               from_thread |-> None,     \* a reply offered and not yet taken
               thread |-> [pc |-> "recv", msg |-> "none", replies |-> 0]]
    /\ call = Unused
    /\ hp = Unused
    /\ world = Unused
    /\ stat = Unused

\* physics_thread_link.lock().unwrap()
Lock(c) ==
    /\ link.callers[c].pc = "idle"
    /\ link.mutex = 0
    /\ link' = [link EXCEPT !.mutex = c, !.callers[c].pc = "locked"]
    /\ UNCHANGED <<space_vars, call, hp, world, stat>>

\* a method of PhysicsThreadLink begins: self.send.send(req) offers the request
Request(c, req) ==
    /\ link.callers[c].pc = "locked"
    /\ link.to_thread = None
    /\ link' = [link EXCEPT !.to_thread = Some(req),
                            !.callers[c] = [pc |-> "sending", req |-> req,
                                            got |-> "none"]]
    /\ UNCHANGED <<space_vars, call, hp, world, stat>>

\* the physics thread takes the next message of recv.iter()
ThreadRecv ==
    /\ link.thread.pc = "recv"
    /\ IsSome(link.to_thread)
    /\ link' = [link EXCEPT !.to_thread = None,
                            !.thread = [pc |-> "handling",
                                        msg |-> Unwrap(link.to_thread),
                                        replies |-> 0]]
    /\ UNCHANGED <<space_vars, call, hp, world, stat>>

\* send returns once the request was taken; the method goes on to
\* self.recv.recv() or returns
SendReturns(c) ==
    /\ link.callers[c].pc = "sending"
    /\ link.to_thread = None
    /\ link' = [link EXCEPT !.callers[c].pc =
                    IF unwrap_of(link.callers[c].req) = "none"
                    THEN "locked" ELSE "receiving"]
    /\ UNCHANGED <<space_vars, call, hp, world, stat>>

\* the arm of the match for the message: it offers its reply, if it has one
ThreadHandle ==
    /\ link.thread.pc = "handling"
    /\ link' = IF reply_of(link.thread.msg) = "none"
               THEN [link EXCEPT !.thread.pc = "recv"]
               ELSE [link EXCEPT !.from_thread = Some(reply_of(link.thread.msg)),
                                 !.thread.pc = "replying",
                                 !.thread.replies = link.thread.replies + 1]
    /\ UNCHANGED <<space_vars, call, hp, world, stat>>

\* self.recv.recv().unwrap().unwrap_*(): a reply of another variant panics
Receive(c) ==
    /\ link.callers[c].pc = "receiving"
    /\ IsSome(link.from_thread)
    /\ link' = [link EXCEPT !.from_thread = None,
                            !.callers[c].got = Unwrap(link.from_thread),
                            !.callers[c].pc =
                                IF Unwrap(link.from_thread)
                                     = unwrap_of(link.callers[c].req)
                                THEN "locked" ELSE "panicked"]
    /\ UNCHANGED <<space_vars, call, hp, world, stat>>

\* the thread's send returns once the reply was taken
ThreadSendReturns ==
    /\ link.thread.pc = "replying"
    /\ link.from_thread = None
    /\ link' = [link EXCEPT !.thread.pc = "recv"]
    /\ UNCHANGED <<space_vars, call, hp, world, stat>>

\* the MutexGuard is dropped
Unlock(c) ==
    /\ link.callers[c].pc = "locked"
    /\ link' = [link EXCEPT !.mutex = 0, !.callers[c].pc = "idle"]
    /\ UNCHANGED <<space_vars, call, hp, world, stat>>

NextLink ==
    \/ \E c \in Callers : Lock(c)
    \/ \E c \in Callers, req \in Requests : Request(c, req)
    \/ ThreadRecv
    \/ \E c \in Callers : SendReturns(c)
    \/ ThreadHandle
    \/ \E c \in Callers : Receive(c)
    \/ ThreadSendReturns
    \/ \E c \in Callers : Unlock(c)

SpecLink == InitLink /\ [][NextLink]_vars

----------------------------------------------------------------------------
(* engine::component::Hitpoints                                            *)

\* the number of values of a u16
U16 == 65536

\* the calls made at most on one Hitpoints
MaxCalls == 3

HpMaxes == {100, 40000, 65535}

HpArgs == {0, 1, 50, 30000, 65535}

\* Hitpoints::new(max); overflow_checks tells a build that panics on an
\* arithmetic overflow (debug) from one that wraps (release)
InitHp ==
    /\ NoSpace
    /\ \E max \in HpMaxes, overflow_checks \in BOOLEAN :
          hp = [current |-> max, max |-> max,
                overflow_checks |-> overflow_checks, panicked |-> FALSE,
                op |-> "new", arg |-> max, before |-> max, calls |-> 0]
    /\ call = Unused
    /\ world = Unused
    /\ stat = Unused
    /\ link = Unused

Min(a, b) == IF a <= b THEN a ELSE b

\* Hitpoints::set_current
set_current(h, x) == [h EXCEPT !.current = Min(x, h.max)]

\* Hitpoints::damage
damage(h, d) ==
    IF d > h.current THEN set_current(h, 0)
    ELSE set_current(h, h.current - d)

\* Hitpoints::heal: self.current + heal is a u16 addition
heal(h, x) ==
    IF h.current + x >= U16 /\ h.overflow_checks
    THEN [h EXCEPT !.panicked = TRUE]
    ELSE [h EXCEPT !.current = Min((h.current + x) % U16, h.max)]

\* the call about to be made, on the record of the component
Calling(op, arg) ==
    [hp EXCEPT !.op = op, !.arg = arg, !.before = hp.current,
               !.calls = hp.calls + 1]

CanCall == ~hp.panicked /\ hp.calls < MaxCalls

SetCurrent(x) ==
    /\ CanCall
    /\ hp' = set_current(Calling("set_current", x), x)
    /\ UNCHANGED <<space_vars, call, world, stat, link>>

Damage(d) ==
    /\ CanCall
    /\ hp' = damage(Calling("damage", d), d)
    /\ UNCHANGED <<space_vars, call, world, stat, link>>

Heal(x) ==
    /\ CanCall
    /\ hp' = heal(Calling("heal", x), x)
    /\ UNCHANGED <<space_vars, call, world, stat, link>>

NextHp ==
    \/ \E x \in HpArgs : SetCurrent(x)
    \/ \E d \in HpArgs : Damage(d)
    \/ \E x \in HpArgs : Heal(x)

SpecHp == InitHp /\ [][NextHp]_vars

----------------------------------------------------------------------------
(* Properties of Space::update                                             *)

Idx(seq) == 1..Len(seq)

Queues(b) == <<b.applied_forces, b.applied_impulses, b.applied_friction>>

NoQueues(b) == Queues(b) = <<<<>>, <<>>, <<>>>>

\* the displacement positional correction gave the bodies of a collision
Moved(h, side) == h.after[side].pos # h.before[side].pos

\* C1: a Static body has the position and the velocity it had before, after
\* every step of the engine: apply_force, apply_impulse, apply_friction, the
\* integration of Space::update and each pair of its collision loop
C1_StaticInvariance ==
    [][\A k \in Idx(bodies) :
          bodies[k].body_type = "Static"
              => /\ bodies'[k].pos = bodies[k].pos
                 /\ bodies'[k].vel = bodies[k].vel]_vars

\* a Static body with a force, impulse or friction applied to it has been
\* through an update in which it collided with a Dynamic body that positional
\* correction moved
C1_Witness ==
    /\ pc = "idle"
    /\ \E q \in Idx(hits) :
          /\ hits[q].before[1].body_type = "Static"
          /\ hits[q].before[2].body_type = "Dynamic"
          /\ Moved(hits[q], 2)
          /\ ~NoQueues(pre[hits[q].i])
          /\ pre[hits[q].i].vel # VZero

\* the velocity change of a Dynamic body along axis e in one integration when
\* no friction entry of the body acts along e
QueuedDelta(b, g, dt, e) ==
    dot(VAdd(mul(g, dt),
             mul(VAdd(mul(VSum(b.applied_forces, 1), dt), VSum(b.applied_impulses, 1)),
                 FDiv(One, mass(b)))),
        e)

FrictionAlong(b, e) ==
    \A q \in Idx(b.applied_friction) :
        FEq(dot(b.applied_friction[q], e), dot(b.applied_friction[q], b.applied_friction[q]))
        \/ FEq(dot(b.applied_friction[q], e), FNeg(dot(b.applied_friction[q], b.applied_friction[q])))
        \/ b.applied_friction[q] = VZero

Axes == { V(1, 0), V(0, 1) }

RECURSIVE PairsFrom(_, _, _)
PairsFrom(i, j, n) ==
    IF i >= n THEN <<>>
    ELSE IF j > n THEN PairsFrom(i + 1, i + 2, n)
    ELSE <<<<i, j>>>> \o PairsFrom(i, j + 1, n)

\* C3: an update over n bodies gives check_body_collision every pair i < j
\* exactly once, n(n-1)/2 pairs in all, and never a body with itself
C3_EveryPairOnce ==
    /\ \A q \in Idx(tested) : tested[q][1] # tested[q][2]
    /\ step >= 1 /\ pc = "idle"
         => /\ Len(tested) = (Len(pre) * (Len(pre) - 1)) \div 2
            /\ \A i \in Idx(pre), j \in Idx(pre) :
                  i < j => Cardinality({q \in Idx(tested) : tested[q] = <<i, j>>}) = 1
            /\ tested = PairsFrom(1, 2, Len(pre))

\* an update over three bodies, two of them Static, has tested its three pairs
C3_Witness ==
    /\ step >= 1
    /\ pc = "idle"
    /\ Len(pre) = 3
    /\ Len(tested) = 3
    /\ \E i \in Idx(pre), j \in Idx(pre) :
          i < j /\ pre[i].body_type = "Static" /\ pre[j].body_type = "Static"

PairOf(r) == <<r.i, r.j>>

PairsOf(seq) == [q \in Idx(seq) |-> PairOf(seq[q])]

\* C4: with a callback registered an update invokes it once for every pair
\* that collided, in the order of the collisions and for no other pair, with
\* the bodies as resolution left them (impulse and friction queued unless
\* neither body is Dynamic); without one nothing is invoked
C4_CallbackPerCollision ==
    /\ cb_at => PairsOf(called) = PairsOf(hits)
    /\ ~cb_at => called = <<>>
    /\ \A q \in Idx(called) :
          /\ called[q].collision = hits[q].collision
          /\ called[q].b1 = hits[q].after[1]
          /\ called[q].b2 = hits[q].after[2]
          /\ hits[q].before[1].body_type = "Dynamic" \/ hits[q].before[2].body_type = "Dynamic"
               => /\ Len(called[q].b1.applied_impulses) = Len(hits[q].before[1].applied_impulses) + 1
                  /\ Len(called[q].b2.applied_impulses) = Len(hits[q].before[2].applied_impulses) + 1
                  /\ Len(called[q].b1.applied_friction) = Len(hits[q].before[1].applied_friction) + 1
                  /\ Len(called[q].b2.applied_friction) = Len(hits[q].before[2].applied_friction) + 1

\* an update over three bodies with the callback registered found a collision
\* with a Dynamic body and a pair that did not collide
C4_Witness ==
    /\ pc = "idle"
    /\ cb_at
    /\ Len(tested) = 3
    /\ Len(called) \in 1..2
    /\ \E q \in Idx(called) : called[q].b2.body_type = "Dynamic"

\* C5: two overlapping Static bodies are reported as colliding and solving the
\* collision leaves both as they were, with nothing queued; an update of a
\* space of Static bodies changes no position and no velocity
C5_DoubleStaticNoOp ==
    /\ \A q \in Idx(hits) :
          hits[q].before[1].body_type = "Static" /\ hits[q].before[2].body_type = "Static"
              => hits[q].after = hits[q].before
    /\ step >= 1 /\ (\A k \in Idx(pre) : pre[k].body_type = "Static")
         => /\ \A q \in Idx(hits) : NoQueues(hits[q].after[1]) /\ NoQueues(hits[q].after[2])
            /\ \A k \in Idx(pre) : bodies[k].pos = pre[k].pos /\ bodies[k].vel = pre[k].vel

\* an update of a space of two overlapping Static bodies has found them
\* colliding
C5_Witness ==
    /\ step >= 1
    /\ pc = "idle"
    /\ Len(pre) = 2
    /\ pre[1].body_type = "Static"
    /\ pre[2].body_type = "Static"
    /\ Len(hits) = 1

\* C6: Body::update leaves the three accumulators of every body empty, so that
\* a Dynamic body with nothing applied since the update before gains gravity
\* * dt and nothing else
C6_AccumulatorsCleared ==
    /\ \A k \in Idx(mid) : NoQueues(mid[k])
    /\ \A k \in Idx(mid) :
          pre[k].body_type = "Dynamic" /\ NoQueues(pre[k])
              => mid[k].vel = VAdd(pre[k].vel, mul(gravity, cur_dt))

\* a Static and a Dynamic body went into the second update with entries in
\* their accumulators
C6_Witness ==
    /\ step = 2
    /\ \E k \in Idx(pre) : pre[k].body_type = "Static" /\ ~NoQueues(pre[k])
    /\ \E k \in Idx(pre) : pre[k].body_type = "Dynamic" /\ ~NoQueues(pre[k])

\* C7: from the call of an update on, a Kinematic body has the velocity it
\* had at the call and the position it had plus velocity * dt, whatever was
\* applied to it and whatever it collided with
C7_KinematicMotion ==
    \A k \in Idx(pre) :
        pre[k].body_type = "Kinematic"
            => /\ bodies[k].vel = pre[k].vel
               /\ bodies[k].pos = VAdd(pre[k].pos, mul(pre[k].vel, cur_dt))

\* a Kinematic body with an entry applied to it went into an update and
\* overlapped a Dynamic body that positional correction moved
C7_Witness ==
    /\ pc = "idle"
    /\ \E q \in Idx(hits) :
          /\ hits[q].before[1].body_type = "Kinematic"
          /\ hits[q].before[2].body_type = "Dynamic"
          /\ Moved(hits[q], 2)
          /\ ~NoQueues(pre[hits[q].i])

----------------------------------------------------------------------------
(* Properties of a lone Dynamic body (SpecLone)                            *)

\* v + gravity * dt + (sum(F) * dt + sum(J)) / m
LoneVel(b, g, dt) ==
    VAdd(VAdd(b.vel, mul(g, dt)),
         mul(VAdd(mul(VSum(b.applied_forces, 1), dt), VSum(b.applied_impulses, 1)),
             FDiv(One, mass(b))))

AtRestAtOrigin(b) == b.vel = VZero /\ b.pos = VZero /\ NoQueues(b)

\* C8: an update of a space holding one Dynamic body without friction entries
\* leaves it with v' = v + gravity * dt + (sum(F) * dt + sum(J)) / m over all
\* the forces F and impulses J applied since the update before, and with
\* p' = p + v' * dt; a body of mass 10 at rest at the origin under gravity
\* (0, 9.81) has velocity (0, 9.81) and position (0, 9.81) after update(1)
C8_LoneDynamicIntegration ==
    step >= 1 /\ Len(pre) = 1 /\ pre[1].body_type = "Dynamic"
        /\ pre[1].applied_friction = <<>>
        => /\ mid[1].vel = LoneVel(pre[1], gravity, cur_dt)
           /\ mid[1].pos = VAdd(pre[1].pos, mul(mid[1].vel, cur_dt))
           /\ (/\ AtRestAtOrigin(pre[1])
               /\ mass(pre[1]) = F(10, 1)
               /\ gravity = Vec(Zero, F(981, 100))
               /\ cur_dt = One)
                  => /\ mid[1].vel = Vec(Zero, F(981, 100))
                     /\ mid[1].pos = Vec(Zero, F(981, 100))

\* a moving body of mass 10 went into an update under gravity (0, 9.81) with
\* three forces, not all equal, and two different impulses applied to it
C8_Witness ==
    /\ step = 1
    /\ Len(pre) = 1
    /\ mass(pre[1]) = F(10, 1)
    /\ gravity = Vec(Zero, F(981, 100))
    /\ pre[1].vel # VZero
    /\ Len(pre[1].applied_forces) = 3
    /\ pre[1].applied_forces[1] # pre[1].applied_forces[2]
    /\ Len(pre[1].applied_impulses) = 2
    /\ pre[1].applied_impulses[1] # pre[1].applied_impulses[2]
    /\ mid[1].pos # pre[1].pos

----------------------------------------------------------------------------
(* Properties of two Dynamic bodies that meet (SpecPair)                   *)

total_momentum(b1, b2) == VAdd(momentum(b1), momentum(b2))

\* the collision of the update before, when both its bodies are Dynamic
DynamicHit(h) ==
    h.before[1].body_type = "Dynamic" /\ h.before[2].body_type = "Dynamic"

\* C9: two Dynamic bodies of restitution 1 that collided at a relative speed
\* of VELOCITY_THRESHOLD or more, under no gravity, have after the integration
\* of the next update the total momentum m1 * v1 + m2 * v2 they had when the
\* collision was resolved, whatever their velocities
C9_MomentumConserved ==
    step = 2 /\ gravity = VZero
        => \A q \in Idx(prev_hits) :
              /\ DynamicHit(prev_hits[q])
              /\ prev_hits[q].before[1].restitution = One
              /\ prev_hits[q].before[2].restitution = One
              /\ FGe(relative_speed(prev_hits[q].before[1], prev_hits[q].before[2]),
                     VELOCITY_THRESHOLD)
              => total_momentum(mid[prev_hits[q].i], mid[prev_hits[q].j])
                   = total_momentum(prev_hits[q].before[1], prev_hits[q].before[2])

\* C10: two Dynamic bodies that collided at a relative speed below
\* VELOCITY_THRESHOLD have, after the integration of the next update, the
\* same velocity along the contact normal, whatever their restitutions
C10_InelasticBelowThreshold ==
    step = 2
        => \A q \in Idx(prev_hits) :
              /\ DynamicHit(prev_hits[q])
              /\ FLt(relative_speed(prev_hits[q].before[1], prev_hits[q].before[2]),
                     VELOCITY_THRESHOLD)
              => dot(mid[prev_hits[q].i].vel, prev_hits[q].collision.normal_a)
                   = dot(mid[prev_hits[q].j].vel, prev_hits[q].collision.normal_a)

\* two Dynamic bodies of restitution 1 and of different masses met at a
\* relative speed below the threshold with different velocities along the
\* normal and across it, and the next update has integrated their impulses
C10_Witness ==
    /\ step = 2
    /\ \E q \in Idx(prev_hits) :
          /\ DynamicHit(prev_hits[q])
          /\ FLt(relative_speed(prev_hits[q].before[1], prev_hits[q].before[2]),
                 VELOCITY_THRESHOLD)
          /\ prev_hits[q].before[1].restitution = One
          /\ prev_hits[q].before[2].restitution = One
          /\ mass(prev_hits[q].before[1]) # mass(prev_hits[q].before[2])
          /\ prev_hits[q].before[1].vel.x # prev_hits[q].before[2].vel.x
          /\ prev_hits[q].before[1].vel.y # prev_hits[q].before[2].vel.y
          /\ mid[prev_hits[q].i].vel # pre[prev_hits[q].i].vel

----------------------------------------------------------------------------
(* Properties of a sliding Dynamic body (SpecSlide)                        *)

\* C11: a Dynamic body that goes into an update with one friction entry and
\* nothing else applied comes out with a velocity whose component across the
\* entry (along the part of its momentum orthogonal to the entry) is zero or
\* of the sign it had: friction stops the sliding at most
C11_FrictionNeverReverses ==
    step >= 1 /\ Len(pre) = 1 /\ Len(pre[1].applied_friction) = 1
        => FGe(dot(mid[1].vel,
                   orthogonalise(pre[1].vel, pre[1].applied_friction[1])),
               Zero)

----------------------------------------------------------------------------
(* Properties of positional correction                                     *)

Dynamic(b) == b.body_type = "Dynamic"

\* the positions the bodies of the collision h have after it was solved, for
\* the displacement d of its positional correction
CorrectedBy(h, d) ==
    /\ Dynamic(h.before[1]) /\ Dynamic(h.before[2])
         => /\ h.after[1].pos = VAdd(h.before[1].pos, d)
            /\ h.after[2].pos = VSub(h.before[2].pos, d)
    /\ Dynamic(h.before[1]) /\ ~Dynamic(h.before[2])
         => /\ h.after[1].pos = VAdd(h.before[1].pos, mul(d, F(2, 1)))
            /\ h.after[2].pos = h.before[2].pos
    /\ ~Dynamic(h.before[1]) /\ Dynamic(h.before[2])
         => /\ h.after[1].pos = h.before[1].pos
            /\ h.after[2].pos = VSub(h.before[2].pos, mul(d, F(2, 1)))

\* C12: positional correction with displacement d moves body A by +d and body
\* B by -d when both are Dynamic; when one is Dynamic and the other is not,
\* it moves the Dynamic body alone, by +2d (A) or -2d (B)
C12_CorrectionSplit ==
    \A q \in Idx(hits) :
        CorrectedBy(hits[q], correction_displacement(hits[q].collision, hits[q].before[1]))

\* an update found a collision of two Dynamic bodies and one of a Static with
\* a Dynamic body, and positional correction moved bodies of both
C12_Witness ==
    /\ \E q \in Idx(hits) :
          Dynamic(hits[q].before[1]) /\ Dynamic(hits[q].before[2]) /\ Moved(hits[q], 1)
    /\ \E q \in Idx(hits) :
          hits[q].before[1].body_type = "Static" /\ Dynamic(hits[q].before[2])
              /\ Moved(hits[q], 2)

\* the depth of the overlap of the rectangles of a and b along the axis of
\* the normal n: the length of the intersection of their extents on it
OverlapDepth(a, b, n) ==
    IF n.x # Zero
    THEN FSub(FMin(FAdd(a.pos.x, a.hw), FAdd(b.pos.x, b.hw)),
              FMax(FSub(a.pos.x, a.hw), FSub(b.pos.x, b.hw)))
    ELSE FSub(FMin(FAdd(a.pos.y, a.hh), FAdd(b.pos.y, b.hh)),
              FMax(FSub(a.pos.y, a.hh), FSub(b.pos.y, b.hh)))

\* C13: when a collision with at least one Dynamic body has been solved, the
\* two rectangles overlap no more along the axis of the contact normal,
\* however they overlapped
C13_CorrectionSeparates ==
    \A q \in Idx(hits) :
        Dynamic(hits[q].before[1]) \/ Dynamic(hits[q].before[2])
            => FLe(OverlapDepth(hits[q].after[1], hits[q].after[2],
                                hits[q].collision.normal_a), Zero)

----------------------------------------------------------------------------
(* Properties of a body resting on the ground (SpecRest)                   *)

SettleSteps == 3

\* the index of the Dynamic body of a space holding exactly one
TheDynamic(bs) == CHOOSE k \in Idx(bs) : Dynamic(bs[k])

\* how deep the rectangles of bs[1] and bs[2] are into one another along y
Penetration(bs) == FMax(Zero, OverlapDepth(bs[1], bs[2], V(0, 1)))

\* C14: once SettleSteps updates have been made, after every later update the
\* body on the ground has a vertical speed of at most |gravity| * dt and is no
\* deeper in the ground than it was after the update before
C14_RestingContact ==
    pc = "idle" /\ step > SettleSteps
        => /\ FLe(FAbs(bodies[TheDynamic(bodies)].vel.y), FMul(gravity.y, cur_dt))
           /\ FLe(Penetration(bodies), Penetration(pre))

----------------------------------------------------------------------------
(* Properties of Rect::collides_with (SpecNest)                            *)

\* the normals of the collision c of the rectangles of a and b, for the width
\* w and the height t of their overlap
NormalByShape(a, c, w, t) ==
    /\ FGt(w, t) => c.normal_a \in { V(0, 1), V(0, -1) }
    /\ ~FGt(w, t) => c.normal_a \in { V(1, 0), V(-1, 0) }
    /\ FGe(dot(c.normal_a, VSub(a.pos, c.point_a)), Zero)
    /\ dot(Vec(FAbs(c.normal_a.x), FAbs(c.normal_a.y)), VSub(a.pos, c.point_a)) # Zero
         => FGt(dot(c.normal_a, VSub(a.pos, c.point_a)), Zero)
    /\ c.normal_b = mul(c.normal_a, F(-1, 1))

\* C15: normal_a of a collision is (0, 1) or (0, -1) when the overlap is
\* strictly wider than tall and (1, 0) or (-1, 0) otherwise; along its axis it
\* points from the centre of the overlap to the centre of body A; normal_b is
\* its opposite
C15_NormalByOverlapShape ==
    \A q \in Idx(hits) :
        NormalByShape(hits[q].before[1], hits[q].collision,
                      OverlapDepth(hits[q].before[1], hits[q].before[2], V(1, 0)),
                      OverlapDepth(hits[q].before[1], hits[q].before[2], V(0, 1)))

\* a collision whose overlap is taller than wide, with the centre of body A
\* to the right of the overlap's
C15_Witness ==
    \E q \in Idx(hits) :
        /\ FLt(OverlapDepth(hits[q].before[1], hits[q].before[2], V(1, 0)),
               OverlapDepth(hits[q].before[1], hits[q].before[2], V(0, 1)))
        /\ hits[q].collision.normal_a = V(1, 0)
        /\ FLt(hits[q].collision.point_a.x, hits[q].before[1].pos.x)

\* the component of v along the axis of the normal of the collision c
OnAxis(c, v) == dot(Vec(FAbs(c.normal_a.x), FAbs(c.normal_a.y)), v)

\* the component of normal_a along (centre of B - centre of A)
TowardB(h) == dot(h.collision.normal_a, VSub(h.before[2].pos, h.before[1].pos))

CentresDiffer(h) == OnAxis(h.collision, VSub(h.before[2].pos, h.before[1].pos)) # Zero

\* the overlap is not centred on the centre of A along the axis of the normal
OffCentre(h) == OnAxis(h.collision, VSub(h.collision.point_a, h.before[1].pos)) # Zero

\* C16 as claimed: normal_a of a collision of rectangles whose centres differ
\* on the axis of the normal has a positive component along (centre of B -
\* centre of A): it points from A to B
C16_NormalTowardB ==
    \A q \in Idx(hits) : CentresDiffer(hits[q]) => FGt(TowardB(hits[q]), Zero)

\* C16 as amended: normal_a of a collision of rectangles whose centres differ
\* on the axis of the normal, with an overlap not centred on A's centre on
\* that axis, has a negative component along (centre of B - centre of A): it
\* points from B to A, the way A is pushed
C16_NormalAwayFromB ==
    \A q \in Idx(hits) :
        CentresDiffer(hits[q]) /\ OffCentre(hits[q]) => FLt(TowardB(hits[q]), Zero)

\* a collision of a rectangle with a larger one whose centre is to its right
\* and below it, on a vertical normal
C16_Witness ==
    \E q \in Idx(hits) :
        /\ CentresDiffer(hits[q])
        /\ OffCentre(hits[q])
        /\ hits[q].collision.normal_a = V(0, -1)
        /\ FLt(hits[q].before[1].hw, hits[q].before[2].hw)
        /\ FLt(hits[q].before[1].pos.x, hits[q].before[2].pos.x)

\* the extents of the rectangles of a and b are strictly apart on an axis
Separated(a, b) ==
    \/ FLt(OverlapDepth(a, b, V(1, 0)), Zero)
    \/ FLt(OverlapDepth(a, b, V(0, 1)), Zero)

\* the centre of the overlap rectangle: on each axis the mean of the greater
\* of the lower edges and the lesser of the upper edges
OverlapCentre(a, b) ==
    Vec(FDiv(FAdd(FMax(FSub(a.pos.x, a.hw), FSub(b.pos.x, b.hw)),
                  FMin(FAdd(a.pos.x, a.hw), FAdd(b.pos.x, b.hw))), F(2, 1)),
        FDiv(FAdd(FMax(FSub(a.pos.y, a.hh), FSub(b.pos.y, b.hh)),
                  FMin(FAdd(a.pos.y, a.hh), FAdd(b.pos.y, b.hh))), F(2, 1)))

\* C17: the pair of an update of two rectangles is found colliding unless
\* their extents are strictly apart on an axis, so also when they only touch
\* along an edge or at a corner; the collision has point_a = point_b = the
\* centre of the overlap rectangle
C17_CollidesUnlessSeparated ==
    /\ pc = "idle" /\ step >= 1 /\ Len(mid) = 2
         => (hits = <<>> <=> Separated(mid[1], mid[2]))
    /\ \A q \in Idx(hits) :
          /\ hits[q].collision.point_a = OverlapCentre(hits[q].before[1], hits[q].before[2])
          /\ hits[q].collision.point_b = hits[q].collision.point_a

\* two rectangles that touch at a corner only were found colliding
C17_Witness ==
    \E q \in Idx(hits) :
        /\ OverlapDepth(hits[q].before[1], hits[q].before[2], V(1, 0)) = Zero
        /\ OverlapDepth(hits[q].before[1], hits[q].before[2], V(0, 1)) = Zero
        /\ hits[q].collision.point_a = V(3, 3)

----------------------------------------------------------------------------
(* Properties of Rect::cast_ray (SpecRay)                                  *)

\* the point lies on one of the four edge segments of the rectangle
OnBoundary(hw, hh, pos, p) ==
    /\ contains(hw, hh, pos, p)
    /\ \/ p.x = FSub(pos.x, hw)
       \/ p.x = FAdd(pos.x, hw)
       \/ p.y = FSub(pos.y, hh)
       \/ p.y = FAdd(pos.y, hh)

\* the point lies on the segment origin + t * dir, t in [0, 1]
OnRay(origin, dir, p) ==
    /\ FSub(FMul(FSub(p.x, origin.x), dir.y), FMul(FSub(p.y, origin.y), dir.x)) = Zero
    /\ FGe(dot(VSub(p, origin), dir), Zero)
    /\ FLe(dot(VSub(p, origin), dir), dot(dir, dir))

\* where the ray meets the lines x = x1, x = x2, y = y1, y = y2
LineCrossings(hw, hh, pos, origin, dir) ==
    {VAdd(origin, mul(dir, FDiv(FSub(x, origin.x), dir.x))) :
        x \in IF dir.x = Zero THEN {} ELSE {FSub(pos.x, hw), FAdd(pos.x, hw)}}
    \cup
    {VAdd(origin, mul(dir, FDiv(FSub(y, origin.y), dir.y))) :
        y \in IF dir.y = Zero THEN {} ELSE {FSub(pos.y, hh), FAdd(pos.y, hh)}}

\* the points where the ray segment crosses an edge segment
Crossings(hw, hh, pos, origin, dir) ==
    {p \in LineCrossings(hw, hh, pos, origin, dir) :
        OnBoundary(hw, hh, pos, p) /\ OnRay(origin, dir, p)}

CastCrossings == Crossings(cast.hw, cast.hh, cast.pos, cast.origin, cast.dir)

DistSq(a, b) == dot(VSub(a, b), VSub(a, b))

\* C18: when the ray segment crosses the rectangle's edges at more than one
\* point, cast_ray returns the crossing nearest the ray's origin, wherever
\* the rectangle and the ray lie relative to the world origin
C18_NearestToRayOrigin ==
    cast.done /\ Cardinality(CastCrossings) > 1
        => /\ IsSome(cast.hit)
           /\ Unwrap(cast.hit) \in CastCrossings
           /\ \A p \in CastCrossings :
                 FLe(DistSq(Unwrap(cast.hit), cast.origin), DistSq(p, cast.origin))

\* C19: a point returned by cast_ray lies on an edge segment of the rectangle
\* and on the ray segment, and cast_ray returns None when the ray segment
\* meets no edge segment
C19_HitOnEdgeAndRay ==
    cast.done
        => /\ IsSome(cast.hit)
                => /\ OnBoundary(cast.hw, cast.hh, cast.pos, Unwrap(cast.hit))
                   /\ OnRay(cast.origin, cast.dir, Unwrap(cast.hit))
           /\ CastCrossings = {} => cast.hit = None

----------------------------------------------------------------------------
(* Properties of an update with dt <= 0 (SpecNonPositive)                  *)

\* C20: an update called with dt <= 0 is refused: it leaves every body with
\* the position and the velocity it had, and both are finite
C20_NonPositiveDtRefused ==
    pc = "idle" /\ step >= 1 /\ FLe(cur_dt, Zero)
        => \A k \in Idx(bodies) :
              /\ bodies[k].pos = pre[k].pos
              /\ bodies[k].vel = pre[k].vel
              /\ VFinite(bodies[k].pos)
              /\ VFinite(bodies[k].vel)

----------------------------------------------------------------------------
(* Properties of Vec2 (SpecVec)                                            *)

\* r is the orthogonal projection of v onto the non-zero vector w: r lies
\* along w and v - r is orthogonal to w
IsProjection(r, v, w) ==
    /\ VFinite(r)
    /\ FSub(FMul(r.x, w.y), FMul(r.y, w.x)) = Zero
    /\ dot(VSub(v, r), w) = Zero

\* C21: unit() of the zero vector is (0, 0); projection_onto the zero vector
\* is (0, 0); projection_onto a non-zero vector w is w * (v.w / w.w), the
\* orthogonal projection of v onto w
C21_NoDivisionByZeroLength ==
    call.done
        => /\ call.fn = "unit" /\ call.self = VZero => call.result = VZero
           /\ call.fn = "projection_onto" /\ call.vector = VZero
                => call.result = VZero
           /\ call.fn = "projection_onto" /\ call.vector # VZero
                => IsProjection(call.result, call.self, call.vector)

----------------------------------------------------------------------------
(* Properties of lines_intersect (SpecLines)                               *)

cross(a, b) == FSub(FMul(a.x, b.y), FMul(a.y, b.x))

\* on which side of the line p2 + s * d2 the point p lies: zero on the line
SideOf(p, p2, d2) == cross(VSub(p, p2), d2)

\* the segment p1 + t * d1, t in [0, 1], has both its ends strictly on one
\* side of the line p2 + s * d2: the lines meet at a t outside [0, 1]
MissesLine(p1, d1, p2, d2) ==
    \/ /\ FGt(SideOf(p1, p2, d2), Zero)
       /\ FGt(SideOf(VAdd(p1, d1), p2, d2), Zero)
    \/ /\ FLt(SideOf(p1, p2, d2), Zero)
       /\ FLt(SideOf(VAdd(p1, d1), p2, d2), Zero)

\* C22: for lines that are not parallel lines_intersect returns the point of
\* the first line, at a parameter t in [0, 1], that lies on the second line,
\* and None exactly when the lines meet at a t outside [0, 1]; for parallel
\* lines it returns None
C22_LinesIntersect ==
    call.done
        => IF cross(call.d1, call.d2) = Zero
           THEN call.result = None
           ELSE /\ call.result = None
                     <=> MissesLine(call.p1, call.d1, call.p2, call.d2)
                /\ IsSome(call.result)
                     => /\ OnRay(call.p1, call.d1, Unwrap(call.result))
                        /\ SideOf(Unwrap(call.result), call.p2, call.d2) = Zero

\* the case of the module's test: (0, 0) + t (5, 5) meets (2, 0) + s (0, 6)
\* at (2, 2)
C22_Witness ==
    /\ call.done
    /\ call.p1 = V(0, 0) /\ call.d1 = V(5, 5)
    /\ call.p2 = V(2, 0) /\ call.d2 = V(0, 6)
    /\ call.result = Some(V(2, 2))

----------------------------------------------------------------------------
(* Properties of the time stop (SpecWorld)                                 *)

\* C23: stop_time(dur) called when no time stop is active returns true and
\* leaves time_stop_remaining = Some(dur) and the physics gravity zero;
\* called while one is active it returns false and leaves both as they were
C23_StopTimeOnlyWhenNoneActive ==
    world.op = "stop_time"
        => IF world.before[1] = None
           THEN /\ world.returned
                /\ world.time_stop_remaining = Some(world.arg)
                /\ world.physics_gravity = VZero
           ELSE /\ ~world.returned
                /\ Found(world) = world.before

\* stop_time(5) refused while a time stop of 2 has 1 left
C23_Witness ==
    /\ world.op = "stop_time"
    /\ world.arg = 5
    /\ world.before[1] = Some(1)
    /\ ~world.returned
    /\ world.time_stop_remaining = Some(1)

----------------------------------------------------------------------------
(* Properties of stat::Handler (SpecStat)                                  *)

\* C24: once finish has returned the saver thread has terminated and the file
\* holds the latest value passed to set; the Save messages are written in the
\* order they were sent (the k-th write is of the k-th Save sent), and none is
\* left unwritten
C24_FinishSavesLatest ==
    /\ stat.written <= Len(stat.saves)
    /\ stat.written > 0 => stat.file = stat.saves[stat.written]
    /\ stat.handler = "finished"
         => /\ stat.thread = "terminated"
            /\ stat.channel = <<>>
            /\ stat.written = Len(stat.saves)
            /\ stat.file = stat.latest_stats

\* finish returned after 62 set calls or more: a Save of an older value was
\* sent by set, and the file holds the newer value of the last set
C24_Witness ==
    /\ stat.handler = "finished"
    /\ Len(stat.saves) = 2
    /\ stat.saves[1] = 1
    /\ stat.latest_stats = 2
    /\ stat.file = 2

----------------------------------------------------------------------------
(* Properties of get_collision_impulses                                    *)

LastOf(seq) == seq[Len(seq)]

\* the restitution of the claim: the mean at or above the threshold, else 0
EffectiveRestitution(b1, b2) ==
    IF FGe(norm(VSub(b1.vel, b2.vel)), VELOCITY_THRESHOLD)
    THEN FDiv(FAdd(b1.restitution, b2.restitution), F(2, 1))
    ELSE Zero

\* the collision h is between the Dynamic body at place d and the Static
\* body at place s of the pair
DynamicOnStatic(h, d, s) ==
    /\ h.before[d].body_type = "Dynamic"
    /\ h.before[s].body_type = "Static"

\* C25: in a collision of a Dynamic body of momentum p with a Static body the
\* impulse queued for the Dynamic body is -(1 + e) * proj(p, normal_a) and the
\* impulse queued for the Static body is the zero vector
C25_ImpulseAgainstStatic ==
    \A q \in Idx(hits) : \A d, s \in {1, 2} :
        DynamicOnStatic(hits[q], d, s)
            => /\ LastOf(hits[q].after[d].applied_impulses)
                    = mul(projection_onto(momentum(hits[q].before[d]),
                                          hits[q].collision.normal_a),
                          FNeg(FAdd(One, EffectiveRestitution(hits[q].before[1],
                                                              hits[q].before[2]))))
               /\ LastOf(hits[q].after[s].applied_impulses) = VZero

\* a Dynamic body moving into a Static one at the threshold speed or faster
\* with a mean restitution above zero: it is given an impulse that is not zero
C25_Witness ==
    \E q \in Idx(hits) : \E d, s \in {1, 2} :
        /\ DynamicOnStatic(hits[q], d, s)
        /\ FGt(EffectiveRestitution(hits[q].before[1], hits[q].before[2]), Zero)
        /\ LastOf(hits[q].after[d].applied_impulses) # VZero

\* the impulses solve_collision queued for the two bodies of the collision h
QueuedImpulses(h) ==
    <<LastOf(h.after[1].applied_impulses), LastOf(h.after[2].applied_impulses)>>

AlongNormal(v, h) == cross(v, h.collision.normal_a) = Zero

\* C26: for two colliding Dynamic bodies the two impulses are equal and
\* opposite, and both lie along the contact normal
C26_ImpulsesOpposite ==
    \A q \in Idx(hits) :
        DynamicHit(hits[q])
            => /\ VAdd(QueuedImpulses(hits[q])[1], QueuedImpulses(hits[q])[2]) = VZero
               /\ AlongNormal(QueuedImpulses(hits[q])[1], hits[q])
               /\ AlongNormal(QueuedImpulses(hits[q])[2], hits[q])

\* two Dynamic bodies of different mass, one moving obliquely, exchange an
\* impulse that is not zero
C26_Witness ==
    \E q \in Idx(hits) :
        /\ DynamicHit(hits[q])
        /\ mass(hits[q].before[1]) # mass(hits[q].before[2])
        /\ hits[q].before[1].vel.x # Zero
        /\ hits[q].before[1].vel.y # Zero
        /\ QueuedImpulses(hits[q])[1] # VZero

----------------------------------------------------------------------------
(* Properties of the order of the pair loop                                *)

\* the pair (i1, j1) comes before the pair (i2, j2) in the loop
PairBefore(i1, j1, i2, j2) == i1 < i2 \/ (i1 = i2 /\ j1 < j2)

\* the collisions of this update solved before the pair (i, j) is tested that
\* involve the body k
EarlierHits(k, i, j) ==
    {r \in Idx(hits) : /\ PairBefore(hits[r].i, hits[r].j, i, j)
                       /\ k \in {hits[r].i, hits[r].j}}

Latest(S) == CHOOSE r \in S : \A o \in S : o <= r

\* the body k as the collision h left it
LeftBy(h, k) == IF h.i = k THEN h.after[1] ELSE h.after[2]

\* the position of the body k when the pair (i, j) is tested, if every earlier
\* correction of this update was applied at once
CorrectedPos(k, i, j) ==
    IF EarlierHits(k, i, j) = {} THEN mid[k].pos
    ELSE LeftBy(hits[Latest(EarlierHits(k, i, j))], k).pos

HitOf(i, j) == {r \in Idx(hits) : hits[r].i = i /\ hits[r].j = j}

\* the narrow-phase test of the pair (i, j) on the corrected positions
CorrectedTest(i, j) ==
    collides_with(mid[i].hw, mid[i].hh, CorrectedPos(i, i, j),
                  mid[j].hw, mid[j].hh, CorrectedPos(j, i, j))

\* C27: the test of every pair of an update uses the positions corrected by
\* the pairs before it: the pair collides exactly when it overlaps at those
\* positions, and its collision is the one computed from them
C27_CorrectionsSeenByLaterPairs ==
    \A t \in Idx(tested) :
        /\ HitOf(tested[t][1], tested[t][2]) # {}
              <=> IsSome(CorrectedTest(tested[t][1], tested[t][2]))
        /\ \A r \in HitOf(tested[t][1], tested[t][2]) :
              /\ hits[r].before[1].pos = CorrectedPos(hits[r].i, hits[r].i, hits[r].j)
              /\ hits[r].before[2].pos = CorrectedPos(hits[r].j, hits[r].i, hits[r].j)
              /\ Some(hits[r].collision) = CorrectedTest(hits[r].i, hits[r].j)

\* a pair is tested after an earlier pair of the same update moved one of its
\* bodies, and the test comes out differently from the test at the positions
\* the integration left
C27_Witness ==
    \E t \in Idx(tested) :
        /\ \E k \in {tested[t][1], tested[t][2]} :
              CorrectedPos(k, tested[t][1], tested[t][2]) # mid[k].pos
        /\ CorrectedTest(tested[t][1], tested[t][2])
             # collides_with(mid[tested[t][1]].hw, mid[tested[t][1]].hh,
                             mid[tested[t][1]].pos,
                             mid[tested[t][2]].hw, mid[tested[t][2]].hh,
                             mid[tested[t][2]].pos)

----------------------------------------------------------------------------
(* Properties of Rect::collides_with called from either side (SpecSym)     *)

\* C28: A.collides_with(B) is Some exactly when B.collides_with(A) is Some,
\* both report the same contact point, and the normal_a reported for A is the
\* negation of the normal_a reported for B
C28_CollisionSymmetric ==
    call.done
        => /\ IsSome(call.ab) <=> IsSome(call.ba)
           /\ IsSome(call.ab)
                => /\ Unwrap(call.ab).point_a = Unwrap(call.ba).point_a
                   /\ Unwrap(call.ab).normal_a = mul(Unwrap(call.ba).normal_a, F(-1, 1))

\* the contact point of the collision c lies off the centres of both
\* rectangles on the axis of the normal
OffBothCentres(c) ==
    IF c.normal_a.x # Zero
    THEN c.point_a.x # call.self_pos.x /\ c.point_a.x # call.other_pos.x
    ELSE c.point_a.y # call.self_pos.y /\ c.point_a.y # call.other_pos.y

\* C28 as amended: A.collides_with(B) is Some exactly when B.collides_with(A)
\* is Some and both report the same contact point; the normal_a reported for
\* A is the negation of the one reported for B when the contact point differs
\* from the centres of both rectangles on the axis of the normal
C28_SymmetricOffCentres ==
    call.done
        => /\ IsSome(call.ab) <=> IsSome(call.ba)
           /\ IsSome(call.ab)
                => /\ Unwrap(call.ab).point_a = Unwrap(call.ba).point_a
                   /\ OffBothCentres(Unwrap(call.ab))
                        => Unwrap(call.ab).normal_a
                             = mul(Unwrap(call.ba).normal_a, F(-1, 1))

\* two rectangles that overlap in part, seen from either side
C28_Witness ==
    /\ call.done
    /\ IsSome(call.ab)
    /\ OffBothCentres(Unwrap(call.ab))
    /\ Unwrap(call.ab).normal_a = V(1, 0)
    /\ Unwrap(call.ba).normal_a = V(-1, 0)

----------------------------------------------------------------------------
(* Properties of the physics-thread protocol (SpecLink)                    *)

\* the requests that expect an answer, and the variant of the answer
Answered ==
    {<<"Step", "FinishStep">>, <<"GetPosition", "Position">>,
     <<"GetHalfExtents", "HalfExtents">>, <<"GetRotation", "Rotation">>,
     <<"GetLinVel", "LinVel">>, <<"GetAngVel", "AngVel">>,
     <<"GetInvMass", "InvMass">>,
     <<"GetBodiesIntersectingSensor", "BodiesIntersectingSensor">>,
     <<"GetContacts", "Contacts">>, <<"GetShapeHandle", "ShapeHandle">>}

ExpectsAnswer(req) == \E a \in Answered : a[1] = req

\* the exchange of the caller c for its request is over
ExchangeOver(c) ==
    link.callers[c].pc \in {"locked", "idle"} /\ link.callers[c].req # "none"

----------------------------------------------------------------------------
(* Properties of Hitpoints (SpecHp)                                        *)

\* C30: after any sequence of set_current, damage and heal calls
\* 0 <= current <= max; damage never increases current and saturates at 0;
\* heal never decreases current and caps at max, also when current + heal
\* exceeds the u16 range
C30_HitpointsWithinRange ==
    /\ ~hp.panicked
    /\ 0 <= hp.current
    /\ hp.current <= hp.max
    /\ hp.op = "damage"
         => hp.current = (IF hp.arg > hp.before THEN 0 ELSE hp.before - hp.arg)
    /\ hp.op = "heal"
         => /\ hp.current >= hp.before
            /\ hp.current = Min(hp.before + hp.arg, hp.max)

====
